---- MODULE Spec2Model ----
(***************************************************************************)
(* A model of the shell-syntax printer of src/print.go.                    *)
(*                                                                         *)
(* The printer is one synchronous, recursive traversal of a syntax tree.   *)
(* The model runs it as a machine with a call stack: a frame of the stack  *)
(* is one call of a method of the Go type `printer`, with its arguments,   *)
(* its local variables and the place `at` where it resumes.  A step takes  *)
(* the frame on top, runs the method from `at` up to its next call of a    *)
(* method that has a frame of its own, and pushes the frame of the callee  *)
(* above the rest of the caller.  The small emitters (space, str, byte,    *)
(* incLevel, indent ...) never call back into the traversal and are        *)
(* operators on the printer record.  A method's result (a bool or an int)  *)
(* is left in p.ret or p.reti.                                             *)
(*                                                                         *)
(* Text is kept in chunks: a string value of the tree (Lit.Value,          *)
(* Hdoc.Value, Comment.Text ...) is a sequence of strings whose            *)
(* concatenation is the Go string; a newline inside a value is always a    *)
(* chunk "\n" of its own, so strings.Count(v, "\n") is the number of such  *)
(* chunks.  The output is the sequence of chunks the writer accepted.      *)
(***************************************************************************)
EXTENDS Integers, Sequences, FiniteSets, TLC

VARIABLES
    pc,         \* the statement of Fprint that runs next
    f,          \* the *File being printed (Stmts, Comments)
    p,          \* the printer that is running (all fields of struct printer)
    stack,      \* the calls in progress, the innermost first
    writerFree, \* the sync.Pool of *bufio.Writer: the writers that are free
    result      \* what Fprint returned

vars == <<pc, f, p, stack, writerFree, result>>

----------------------------------------------------------------------------
(* Bounds of the model *)

\* the bufio.Writer hands its buffer to the sink once it holds this many chunks
BufSize == 4
\* the sink may start to fail on its 1st .. MaxFail-th Write call (or never)
MaxFail == 2
\* nested runs of the heredoc loop of newline() before the Go stack is
\* taken to be exhausted
MaxDrainDepth == 2
\* largest distance in source lines between two consecutive top-level nodes
MaxGap == 3

Nil == "nil"
EIO == "EIO"

----------------------------------------------------------------------------
(* Positions: Pos is an offset, File.Position resolves it to a line.        *)

Pos(l, c) == [line |-> l, col |-> c]
NoPos == Pos(0, 0)
\* f.Position(pos).Line
PositionLine(pos) == pos.line
\* a > b on offsets
PosAfter(a, b) == a.line > b.line \/ (a.line = b.line /\ a.col > b.col)

\* strings.Count(v, "\n")
CountNl(v) == Cardinality({i \in 1..Len(v) : v[i] = "\n"})

RECURSIVE SumLen(_)
\* len of the bytes of a sequence of chunks
SumLen(v) == IF v = <<>> THEN 0 ELSE Len(Head(v)) + SumLen(Tail(v))

----------------------------------------------------------------------------
(* The writer p.w: a pooled bufio.Writer reset to the caller's sink, or the *)
(* bytes.Buffer of a scratch printer.                                       *)

\* the error of the sink's n-th Write call: from its failAt-th call on the
\* sink fails, each time with an error of its own
SinkErr(w) ==
    IF w.failAt > 0 /\ w.calls + 1 >= w.failAt THEN EIO \o ToString(w.calls + 1)
    ELSE Nil

\* bw.Reset(w): the writer forgets its buffer and its error
ResetWriter(failAt) ==
    [kind |-> "bufio", n |-> 0, err |-> Nil, sunk |-> 0, calls |-> 0,
     failAt |-> failAt]

ScratchBuffer ==
    [kind |-> "buffer", n |-> 0, err |-> Nil, sunk |-> 0, calls |-> 0,
     failAt |-> 0]

\* printer{w: w, f: f, c: c}
NewPrinter(w, spc) ==
    [w |-> w, c |-> [Spaces |-> spc], err |-> Nil,
     nestedBinary |-> FALSE,
     wantSpace |-> FALSE, wantNewline |-> FALSE, wantSpaces |-> 0,
     curLine |-> 0, lastLevel |-> 0, level |-> 0, levelIncs |-> <<>>,
     comments |-> <<>>, pendingHdocs |-> <<>>,
     \* the output so far, and the results of the last call
     out |-> <<>>, wret |-> Nil, ret |-> FALSE, reti |-> 0,
     \* how the run ended if it did not return: "panic", "overflow"
     crashed |-> "no", depth |-> 0,
     \* history: calls of incLevel and decLevel, calls of commentsUpTo,
     \* heredocs queued, text of the tree copied to the output as it is
     nInc |-> 0, nDec |-> 0, cmtLog |-> {}, queued |-> <<>>, verbatim |-> {},
     \* history: for every entry of levelIncs the level before its incLevel,
     \* what that call did and the flag it pushed; the pairs decLevel closed
     incs |-> <<>>, pairs |-> {},
     \* history: the binary commands that called incLevel, each named by
     \* the position of its x.Y
     binIncs |-> {}]

\* the writer forgets that the sink failed and hands it the buffer again
WriteChunkRetries(q, s) ==
    IF q.crashed # "no" THEN q
    ELSE IF q.w.kind = "buffer" THEN [q EXCEPT !.out = Append(@, s), !.wret = Nil]
    ELSE IF q.w.n >= BufSize
    THEN IF SinkErr(q.w) # Nil
         THEN [q EXCEPT !.w.err = SinkErr(q.w), !.w.calls = @ + 1,
                        !.wret = SinkErr(q.w)]
         ELSE [q EXCEPT !.w.sunk = @ + q.w.n, !.w.n = 1, !.w.calls = @ + 1,
                        !.out = Append(@, s), !.wret = Nil]
    ELSE [q EXCEPT !.w.n = @ + 1, !.out = Append(@, s), !.wret = Nil]

\* one WriteByte / one chunk of a WriteString
WriteChunk(q, s) ==
    IF q.crashed # "no" THEN q
    ELSE IF q.w.kind = "buffer" THEN [q EXCEPT !.out = Append(@, s), !.wret = Nil]
    ELSE IF q.w.err # Nil THEN [q EXCEPT !.wret = q.w.err]
    ELSE IF q.w.n >= BufSize
    THEN \* the buffer is full: Flush hands it to the sink
         IF SinkErr(q.w) # Nil
         THEN [q EXCEPT !.w.err = SinkErr(q.w), !.w.calls = @ + 1,
                        !.wret = SinkErr(q.w)]
         ELSE [q EXCEPT !.w.sunk = @ + q.w.n, !.w.n = 1, !.w.calls = @ + 1,
                        !.out = Append(@, s), !.wret = Nil]
    ELSE [q EXCEPT !.w.n = @ + 1, !.out = Append(@, s), !.wret = Nil]

RECURSIVE WriteString(_, _)
\* p.w.WriteString(v) for a value v in chunks
WriteString(q, v) ==
    IF v = <<>> THEN [q EXCEPT !.wret = IF q.w.kind = "bufio" THEN q.w.err ELSE Nil]
    ELSE IF Len(v) = 1 THEN WriteChunk(q, v[1])
    ELSE WriteString(WriteChunk(q, Head(v)), Tail(v))

\* bw.Flush()
Flush(w) ==
    IF w.err # Nil THEN w
    ELSE IF w.n = 0 THEN w
    ELSE IF SinkErr(w) # Nil
    THEN [w EXCEPT !.err = SinkErr(w), !.calls = @ + 1]
    ELSE [w EXCEPT !.sunk = @ + w.n, !.n = 0, !.calls = @ + 1]

\* the bytes that reached the sink
Sink(q) == SubSeq(q.out, 1, q.w.sunk)

\* p.err = <the error the write returned>
SetErr(q) == [q EXCEPT !.err = q.wret]

\* index out of range, or stack exhausted: the run ends here
Crash(q, how) == IF q.crashed # "no" THEN q ELSE [q EXCEPT !.crashed = how]

----------------------------------------------------------------------------
(* The small emitters, src/print.go:85-142 *)

space(q) == [SetErr(WriteChunk(q, " ")) EXCEPT !.wantSpace = FALSE]

RECURSIVE Repeat(_, _, _)
Repeat(q, s, n) == IF n <= 0 THEN q ELSE Repeat(WriteChunk(q, s), s, n - 1)

spaces(q, n) == [Repeat(q, " ", n) EXCEPT !.wantSpace = FALSE]

tabs(q, n) == [Repeat(q, "\t", n) EXCEPT !.wantSpace = FALSE]

\* the line counter steps back
bslashNewlBack(q) ==
    [SetErr(WriteChunk(q, " \\\n")) EXCEPT !.wantSpace = FALSE, !.curLine = @ - 1]

bslashNewl(q) ==
    [SetErr(WriteChunk(q, " \\\n")) EXCEPT !.wantSpace = FALSE, !.curLine = @ + 1]

\* p.str(s) for a constant string s
str(q, s) == SetErr(WriteChunk(q, s))

\* p.str(v) and p.w.WriteString(v) with p.err set, for a value of the tree
strValue(q, v) == SetErr(WriteString(q, v))

byte(q, b) == SetErr(WriteChunk(q, b))

token(q, s, spaceAfter) ==
    SetErr(WriteChunk([q EXCEPT !.wantSpace = spaceAfter], s))

rsrv(q, s) == [SetErr(WriteChunk(q, s)) EXCEPT !.wantSpace = TRUE]

spacedRsrv(q, s) ==
    LET q1 == IF q.wantSpace THEN space(q) ELSE q
    IN  [SetErr(WriteChunk(q1, s)) EXCEPT !.wantSpace = TRUE]

spacedTok(q, s, spaceAfter) ==
    LET q1 == IF q.wantSpace THEN space(q) ELSE q
    IN  SetErr(WriteChunk([q1 EXCEPT !.wantSpace = spaceAfter], s))

----------------------------------------------------------------------------
(* Indentation, src/print.go:156-185 *)

\* history of an incLevel call: the level before it, whether it raised the
\* level ("inc"), took the increment of the entry before it ("took") or did
\* neither ("none"), and the flag it pushed
Opened(q, how, flag) == [before |-> q.level, how |-> how, flag |-> flag]

\* history of a matched pair: the entry of the incLevel and the level right
\* after its decLevel
Closed(q, lvl) ==
    [before |-> q.incs[Len(q.incs)].before, how |-> q.incs[Len(q.incs)].how,
     flag |-> q.incs[Len(q.incs)].flag, after |-> lvl]

\* the increment is taken from the one before without being taken away
incLevelKeepsFlag(q) ==
    IF q.crashed # "no" THEN q
    ELSE IF q.level <= q.lastLevel
    THEN [q EXCEPT !.level = @ + 1, !.levelIncs = Append(@, TRUE), !.nInc = @ + 1,
                   !.incs = Append(@, Opened(q, "inc", TRUE))]
    ELSE IF q.levelIncs = <<>> THEN Crash(q, "panic")
    ELSE [q EXCEPT !.levelIncs = Append(@, q.levelIncs[Len(q.levelIncs)]),
                   !.nInc = @ + 1,
                   !.incs = Append(@, Opened(q, "took", q.levelIncs[Len(q.levelIncs)]))]

incLevel(q) ==
    IF q.crashed # "no" THEN q
    ELSE IF q.level <= q.lastLevel
    THEN [q EXCEPT !.level = @ + 1, !.levelIncs = Append(@, TRUE), !.nInc = @ + 1,
                   !.incs = Append(@, Opened(q, "inc", TRUE))]
    ELSE IF q.levelIncs = <<>> THEN Crash(q, "panic")
    ELSE IF q.levelIncs[Len(q.levelIncs)]
    THEN [q EXCEPT !.levelIncs = Append([@ EXCEPT ![Len(@)] = FALSE], TRUE),
                   !.nInc = @ + 1,
                   !.incs = Append(@, Opened(q, "took", TRUE))]
    ELSE [q EXCEPT !.levelIncs = Append(@, FALSE), !.nInc = @ + 1,
                   !.incs = Append(@, Opened(q, "none", FALSE))]

\* the level is lowered whatever the flag says
decLevelAlways(q) ==
    IF q.crashed # "no" THEN q
    ELSE IF q.levelIncs = <<>> THEN Crash(q, "panic")
    ELSE [q EXCEPT !.levelIncs = SubSeq(@, 1, Len(@) - 1),
                   !.level = @ - 1,
                   !.nDec = @ + 1,
                   !.incs = SubSeq(@, 1, Len(@) - 1),
                   !.pairs = @ \cup {Closed(q, q.level - 1)}]

decLevel(q) ==
    IF q.crashed # "no" THEN q
    ELSE IF q.levelIncs = <<>> THEN Crash(q, "panic")
    ELSE LET inc == q.levelIncs[Len(q.levelIncs)]
             lvl == IF inc THEN q.level - 1 ELSE q.level
         IN  [q EXCEPT !.levelIncs = SubSeq(@, 1, Len(@) - 1),
                       !.level = lvl,
                       !.nDec = @ + 1,
                       !.incs = SubSeq(@, 1, Len(@) - 1),
                       !.pairs = @ \cup {Closed(q, lvl)}]

indent(q) ==
    LET q1 == [q EXCEPT !.lastLevel = q.level]
    IN  IF q1.level = 0 THEN q1
        ELSE IF q1.c.Spaces = 0 THEN tabs(q1, q1.level)
        ELSE IF q1.c.Spaces > 0 THEN spaces(q1, q1.c.Spaces * q1.level)
        ELSE q1

----------------------------------------------------------------------------
(* Calls.  A frame [fn, at, ...] is a call of the method fn that resumes at *)
(* the place at, with its arguments and locals in the other fields.  A step *)
(* of a method gives the printer after the step and the frames that take    *)
(* the place of the frame that ran, the callee first.                       *)

R(q, frames) == [p |-> q, push |-> frames]

F_newline == [fn |-> "newline", at |-> 0]
F_newlines(pos) == [fn |-> "newlines", at |-> 0, pos |-> pos]
F_alwaysSeparate(pos) == [fn |-> "alwaysSeparate", at |-> 0, pos |-> pos]
F_didSeparate(pos) == [fn |-> "didSeparate", at |-> 0, pos |-> pos]
F_sepTok(s, pos) == [fn |-> "sepTok", at |-> 0, s |-> s, pos |-> pos]
F_semiRsrv(s, rpos, fallback) ==
    [fn |-> "semiRsrv", at |-> 0, s |-> s, pos |-> rpos, fallback |-> fallback]
F_semiOrNewl(s, pos) == [fn |-> "semiOrNewl", at |-> 0, s |-> s, pos |-> pos]
F_commentsUpTo(line) == [fn |-> "commentsUpTo", at |-> 0, line |-> line]
F_wordPart(x) == [fn |-> "wordPart", at |-> 0, x |-> x]
F_unquotedWord(w) == [fn |-> "unquotedWord", at |-> 0, w |-> w, i |-> 1]
F_spacedWord(w) == [fn |-> "spacedWord", at |-> 0, w |-> w]
F_wordJoin(ws, needBackslash) ==
    [fn |-> "wordJoin", at |-> 0, ws |-> ws, needBackslash |-> needBackslash,
     i |-> 1, anyNewline |-> FALSE]
F_stmt(s) == [fn |-> "stmt", at |-> 0, s |-> s, i |-> 0, anyNewline |-> FALSE]
F_command(x, redirs) ==
    [fn |-> "command", at |-> 0, x |-> x, redirs |-> redirs, i |-> 1,
     startRedirs |-> 0, b |-> FALSE]
F_stmts(ss) ==
    [fn |-> "stmts", at |-> 0, stmts |-> ss, i |-> 1, inlineIndent |-> 0,
     lastLine |-> 0, j |-> 0, lastLine2 |-> 0,
     \* history: the length of the output when the list was entered
     n0 |-> 0]
F_nestedStmts(ss) == [fn |-> "nestedStmts", at |-> 0, stmts |-> ss]
F_assigns(as) == [fn |-> "assigns", at |-> 0, assigns |-> as, i |-> 1,
                  anyNewline |-> FALSE]
F_cond(x) == [fn |-> "cond", at |-> 0, x |-> x]
F_stmtLen(s) == [fn |-> "stmtLen", at |-> 0, s |-> s, caller |-> <<>>]

\* for _, n := range w.Parts { p.wordPart(n) }: the calls, in order
F_word(w) == [i \in 1..Len(w.Parts) |-> F_wordPart(w.Parts[i])]

----------------------------------------------------------------------------
(* Separators, comments and heredocs, src/print.go:144-294 *)

semiOrNewl(q, t) ==
    LET rest(z) == [SetErr(WriteChunk(z, t.s)) EXCEPT
                       !.wantSpace = TRUE, !.curLine = PositionLine(t.pos)]
    IN  IF t.at = 0
        THEN IF q.wantNewline THEN R(q, <<F_newline, [t EXCEPT !.at = 1]>>)
             ELSE R(rest(str(q, "; ")), <<>>)
        ELSE R(rest(indent(q)), <<>>)

\* the newline is written and the queue is left as it is
newlineOnly(q, t) ==
    R([byte([q EXCEPT !.wantNewline = FALSE], "\n") EXCEPT !.wantSpace = FALSE], <<>>)

\* at 1: the head of the loop over p.pendingHdocs, hs being the slice that
\* range evaluated once; at 2: after p.unquotedWord(&r.Word)
newline(q, t) ==
    IF t.at = 0
    THEN LET q1 == [byte([q EXCEPT !.wantNewline = FALSE], "\n") EXCEPT
                       !.wantSpace = FALSE]
         IN  R(q1, <<[fn |-> "newline", at |-> 1, hs |-> q1.pendingHdocs, i |-> 1,
                      from |-> 0]>>)
    ELSE IF t.at = 1
    THEN IF t.i > Len(t.hs) THEN R([q EXCEPT !.pendingHdocs = <<>>], <<>>)
         ELSE IF q.depth >= MaxDrainDepth THEN R(Crash(q, "overflow"), <<>>)
         ELSE LET r  == t.hs[t.i]
                  q1 == strValue([q EXCEPT !.depth = @ + 1], r.Hdoc.Value)
              IN  R([q1 EXCEPT !.curLine = @ + CountNl(r.Hdoc.Value)],
                    <<F_unquotedWord(r.Word),
                      [t EXCEPT !.at = 2, !.from = Len(q.out)]>>)
    ELSE LET q1 == [byte(q, "\n") EXCEPT !.curLine = @ + 1, !.wantSpace = FALSE,
                                         !.depth = @ - 1]
         IN  R([q1 EXCEPT !.verbatim = @ \cup
                              {SubSeq(q1.out, t.from + 1, Len(q1.out))}],
               <<[t EXCEPT !.at = 1, !.i = @ + 1]>>)

\* every empty line of the source is kept
newlinesKeepGap(q, t) ==
    IF t.at = 0 THEN R(q, <<F_newline, [t EXCEPT !.at = 1]>>)
    ELSE R([indent(Repeat(q, "\n", t.pos.line - q.curLine - 1)) EXCEPT
               !.curLine = t.pos.line], <<>>)

newlines(q, t) ==
    IF t.at = 0 THEN R(q, <<F_newline, [t EXCEPT !.at = 1]>>)
    ELSE LET q1 == IF t.pos.line > q.curLine + 1
                   THEN byte(q, "\n")      \* preserve single empty lines
                   ELSE q
         IN  R([indent(q1) EXCEPT !.curLine = t.pos.line], <<>>)

\* the comments before the node are left in the backlog
alwaysSeparateNoComments(q, t) ==
    IF q.curLine > 0 THEN R(q, <<F_newlines(t.pos)>>)
    ELSE R([q EXCEPT !.curLine = t.pos.line], <<>>)

alwaysSeparate(q, t) ==
    IF t.at = 0 THEN R(q, <<F_commentsUpTo(t.pos.line), [t EXCEPT !.at = 1]>>)
    ELSE IF q.curLine > 0 THEN R(q, <<F_newlines(t.pos)>>)
    ELSE R([q EXCEPT !.curLine = t.pos.line], <<>>)

didSeparate(q, t) ==
    IF t.at = 0 THEN R(q, <<F_commentsUpTo(t.pos.line), [t EXCEPT !.at = 1]>>)
    ELSE IF t.at = 1
    THEN IF q.wantNewline \/ (q.curLine > 0 /\ t.pos.line > q.curLine)
         THEN R(q, <<F_newlines(t.pos), [t EXCEPT !.at = 2]>>)
         ELSE IF q.curLine = 0
         THEN R([q EXCEPT !.curLine = t.pos.line, !.ret = TRUE], <<>>)
         ELSE R([q EXCEPT !.curLine = t.pos.line, !.ret = FALSE], <<>>)
    ELSE R([q EXCEPT !.ret = TRUE], <<>>)

\* the token stays on the line that is being printed
sepTokSameLine(q, t) ==
    IF t.at = 0
    THEN R([q EXCEPT !.level = @ + 1],
           <<F_commentsUpTo(t.pos.line), [t EXCEPT !.at = 1]>>)
    ELSE IF t.at = 1
    THEN R([q EXCEPT !.level = @ - 1], <<[t EXCEPT !.at = 2]>>)
    ELSE LET q1 == IF t.s # ")" /\ q.wantSpace THEN space(q) ELSE q
         IN  R([SetErr(WriteChunk(q1, t.s)) EXCEPT !.wantSpace = TRUE], <<>>)

sepTok(q, t) ==
    IF t.at = 0
    THEN R([q EXCEPT !.level = @ + 1],
           <<F_commentsUpTo(t.pos.line), [t EXCEPT !.at = 1]>>)
    ELSE IF t.at = 1
    THEN R([q EXCEPT !.level = @ - 1], <<F_didSeparate(t.pos), [t EXCEPT !.at = 2]>>)
    ELSE LET q1 == IF t.s # ")" /\ q.wantSpace THEN space(q) ELSE q
         IN  R([SetErr(WriteChunk(q1, t.s)) EXCEPT !.wantSpace = TRUE], <<>>)

semiRsrv(q, t) ==
    LET pos == Pos(PositionLine(t.pos), t.pos.col)
    IN  IF t.at = 0
        THEN R([q EXCEPT !.level = @ + 1],
               <<F_commentsUpTo(pos.line), [t EXCEPT !.at = 1]>>)
        ELSE IF t.at = 1
        THEN R([q EXCEPT !.level = @ - 1],
               <<F_didSeparate(pos), [t EXCEPT !.at = 2]>>)
        ELSE LET q1 == IF ~q.ret /\ t.fallback THEN str(q, "; ")
                       ELSE IF q.wantSpace THEN space(q)
                       ELSE q
             IN  R([SetErr(WriteChunk(q1, t.s)) EXCEPT !.wantSpace = TRUE], <<>>)

hasInline(q, pos) ==
    \E i \in 1..Len(q.comments) :
        /\ PositionLine(q.comments[i].Hash) = pos.line
        /\ \A j \in 1..(i - 1) : PositionLine(q.comments[j].Hash) <= pos.line

\* line 0 is taken as a line like the others
commentsUpToStopsAtZero(line, cpos) == cpos.line >= line

\* if line > 0 && cpos.Line >= line { return }
commentsUpToStops(line, cpos) == line > 0 /\ cpos.line >= line

\* at 1: after p.didSeparate(cpos); at 2: the call returns (the model notes
\* the backlog it found and the backlog it leaves)
commentsUpTo(q, t) ==
    IF t.at = 0
    THEN IF Len(q.comments) < 1 THEN R(q, <<>>)
         ELSE LET c    == q.comments[1]
                  cpos == Pos(PositionLine(c.Hash), c.Hash.col)
                  note(z) == [z EXCEPT !.cmtLog = @ \cup
                                 {[line |-> t.line, before |-> q.comments,
                                   after |-> z.comments]}]
              IN  IF commentsUpToStops(t.line, cpos) THEN R(note(q), <<>>)
                  ELSE R([q EXCEPT !.wantNewline = FALSE],
                         <<F_didSeparate(cpos),
                           [fn |-> "commentsUpTo", at |-> 1, line |-> t.line, c |-> c],
                           [fn |-> "commentsUpTo", at |-> 2, line |-> t.line,
                            before |-> q.comments]>>)
    ELSE IF t.at = 1
    THEN LET q1 == IF ~q.ret THEN spaces(q, q.wantSpaces + 1) ELSE q
             q2 == strValue(byte(q1, "#"), t.c.Text)
         IN  IF q2.comments = <<>> THEN R(Crash(q2, "panic"), <<>>)
             ELSE R([q2 EXCEPT !.comments = Tail(@)], <<F_commentsUpTo(t.line)>>)
    ELSE R([q EXCEPT !.cmtLog = @ \cup
               {[line |-> t.line, before |-> t.before, after |-> q.comments]}],
           <<>>)

----------------------------------------------------------------------------
(* Words, src/print.go:340-426 and 577-638.  Of the word parts the model    *)
(* has Lit, SglQuoted, the short ParamExp, the $( form of CmdSubst and      *)
(* ArrayExpr; double-quoted parts, backquotes, process substitutions,       *)
(* arithmetic and the long ParamExp are left out.                           *)

startsWithLparen(ss) ==
    IF Len(ss) < 1 THEN FALSE ELSE ss[1].Cmd.type = "Subshell"

\* at 1: after p.sepTok(")", ...)
wordPart(q, t) ==
    LET x == t.x
    IN  IF t.at = 1 THEN R([q EXCEPT !.wantSpace = TRUE], <<>>)
        ELSE IF t.at = 2 THEN R([byte(q, ")") EXCEPT !.wantSpace = TRUE], <<>>)
        ELSE CASE x.type = "Lit" ->
                    R([SetErr(WriteString(q, x.Value)) EXCEPT !.wantSpace = TRUE], <<>>)
               [] x.type = "SglQuoted" ->
                    LET q1 == SetErr(WriteString(byte(q, "'"), x.Value))
                        q2 == byte([q1 EXCEPT !.curLine = @ + CountNl(x.Value)], "'")
                    IN  R([q2 EXCEPT !.wantSpace = TRUE,
                                     !.verbatim = @ \cup {<<"'">> \o x.Value}], <<>>)
               [] x.type = "ParamExp" ->
                    R([strValue(byte(q, "$"), x.Param.Value) EXCEPT !.wantSpace = TRUE],
                      <<>>)
               [] x.type = "CmdSubst" ->
                    LET q1 == str([q EXCEPT !.wantSpace = FALSE], "$(")
                        q2 == IF startsWithLparen(x.Stmts) THEN space(q1) ELSE q1
                    IN  R(q2, <<F_nestedStmts(x.Stmts),
                                F_sepTok(")", Pos(PositionLine(x.Right), x.Right.col)),
                                [t EXCEPT !.at = 1]>>)
               [] x.type = "ArrayExpr" ->
                    R(byte([q EXCEPT !.wantSpace = FALSE], "("),
                      <<F_wordJoin(x.List, FALSE),
                        F_sepTok(")", Pos(PositionLine(x.Rparen), x.Rparen.col)),
                        [t EXCEPT !.at = 1]>>)
               [] x.type = "ProcSubst" ->
                    LET q1 == IF q.wantSpace THEN space(q) ELSE q
                        q2 == str(q1, IF x.Op = "CMDIN" THEN "<(" ELSE ">(")
                    IN  R(q2, <<F_nestedStmts(x.Stmts), [t EXCEPT !.at = 2]>>)
               [] OTHER -> R([q EXCEPT !.wantSpace = TRUE], <<>>)

RECURSIVE unquotedWord(_, _)
\* the loop over w.Parts from the part t.i; the parts that are plain text
\* are written in the same step
unquotedWord(q, t) ==
    IF t.i > Len(t.w.Parts) THEN R(q, <<>>)
    ELSE LET x == t.w.Parts[t.i]
             next == [t EXCEPT !.i = @ + 1]
         IN  CASE x.type = "SglQuoted" -> unquotedWord(strValue(q, x.Value), next)
               [] x.type = "Lit" ->
                    IF x.Value # <<>> /\ x.Value[1] = "\\"
                    THEN unquotedWord(strValue(q, Tail(x.Value)), next)
                    ELSE unquotedWord(strValue(q, x.Value), next)
               [] OTHER -> R(q, <<F_wordPart(x), next>>)

spacedWord(q, t) ==
    R(IF q.wantSpace THEN space(q) ELSE q, F_word(t.w))

\* w.Pos()
WordPos(w) == w.Parts[1].Pos

\* the loop over ws from the word t.i
wordJoin(q, t) ==
    IF t.i > Len(t.ws) THEN R(IF t.anyNewline THEN decLevel(q) ELSE q, <<>>)
    ELSE LET w   == t.ws[t.i]
             brk == q.curLine > 0 /\ PositionLine(WordPos(w)) > q.curLine
             q1  == IF t.needBackslash THEN bslashNewl(q)
                    ELSE [byte(q, "\n") EXCEPT !.curLine = @ + 1]
             q2  == indent(IF ~t.anyNewline THEN incLevel(q1) ELSE q1)
             q3  == IF brk THEN q2
                    ELSE IF q.wantSpace THEN space(q)
                    ELSE q
         IN  R(q3, F_word(w) \o
                   <<[t EXCEPT !.i = @ + 1, !.anyNewline = @ \/ brk]>>)

----------------------------------------------------------------------------
(* Statements and commands, src/print.go:428-456 and 640-994 *)

redirectOp(tok) ==
    CASE tok = "LSS" -> "<"
      [] tok = "GTR" -> ">"
      [] tok = "SHL" -> "<<"
      [] tok = "SHR" -> ">>"
      [] tok = "RDRINOUT" -> "<>"
      [] tok = "DPLIN" -> "<&"
      [] tok = "DPLOUT" -> ">&"
      [] tok = "DHEREDOC" -> "<<-"
      [] tok = "WHEREDOC" -> "<<<"
      [] tok = "RDRALL" -> "&>"
      [] OTHER -> "&>>"

binaryCmdOp(tok) ==
    CASE tok = "OR" -> "|"
      [] tok = "LAND" -> "&&"
      [] tok = "LOR" -> "||"
      [] OTHER -> "|&"

caseClauseOp(tok) ==
    CASE tok = "DSEMICOLON" -> ";;"
      [] tok = "SEMIFALL" -> ";&"
      [] OTHER -> ";;&"

\* r.Pos(): the position of the descriptor if there is one, else of the operator
RedirPos(r) == IF r.N # <<>> THEN r.NPos ELSE r.OpPos

\* the head of a redirection in the loops of stmt and command: the space,
\* the descriptor and the operator (p.word(r.Word) follows)
redirect(q, r) ==
    LET q1 == IF q.wantSpace THEN space(q) ELSE q
        q2 == IF r.N # <<>> THEN strValue(q1, r.N) ELSE q1
    IN  [str(q2, redirectOp(r.Op)) EXCEPT !.wantSpace = TRUE]

\* the body is written where the redirection stands
queueHdocNow(q, r) ==
    IF r.Op = "SHL" \/ r.Op = "DHEREDOC" THEN strValue(q, r.Hdoc.Value) ELSE q

\* if r.Op == SHL || r.Op == DHEREDOC { p.pendingHdocs = append(p.pendingHdocs, r) }
queueHdoc(q, r) ==
    IF r.Op = "SHL" \/ r.Op = "DHEREDOC"
    THEN [q EXCEPT !.pendingHdocs = Append(@, r), !.queued = Append(@, r)]
    ELSE q

cond(q, t) ==
    IF t.x.type = "StmtCond" THEN R(q, <<F_nestedStmts(t.x.Stmts)>>) ELSE R(q, <<>>)

\* at 1: after p.command, the head of the loop over s.Redirs[startRedirs:];
\* at 2: the head of the loop; at 3: after p.didSeparate(pos);
\* at 4: after p.word(r.Word)
stmt(q, t) ==
    LET s == t.s
        r == s.Redirs[t.i]
    IN  IF t.at = 0
        THEN R(IF s.Negated THEN spacedRsrv(q, "!") ELSE q,
               <<F_assigns(s.Assigns), F_command(s.Cmd, s.Redirs), [t EXCEPT !.at = 1]>>)
        ELSE IF t.at = 1
        THEN R(q, <<[t EXCEPT !.at = 2, !.i = q.reti + 1]>>)
        ELSE IF t.at = 2
        THEN IF t.i > Len(s.Redirs)
             THEN LET q1 == IF t.anyNewline THEN decLevel(q) ELSE q
                  IN  R(IF s.Background THEN str(q1, " &") ELSE q1, <<>>)
             ELSE LET pos == Pos(PositionLine(r.OpPos), r.OpPos.col)
                      brk == q.curLine > 0 /\ pos.line > q.curLine
                      q1  == bslashNewl(q)
                      q2  == indent(IF ~t.anyNewline THEN incLevel(q1) ELSE q1)
                  IN  R(IF brk THEN q2 ELSE q,
                        <<F_didSeparate(pos),
                          [t EXCEPT !.at = 3, !.anyNewline = @ \/ brk]>>)
        ELSE IF t.at = 3
        THEN R(redirect(q, r), F_word(r.Word) \o <<[t EXCEPT !.at = 4]>>)
        ELSE R(queueHdoc(q, r), <<[t EXCEPT !.at = 2, !.i = @ + 1]>>)

nestedStmts(q, t) ==
    IF t.at = 0 THEN R(incLevel(q), <<F_stmts(t.stmts), [t EXCEPT !.at = 1]>>)
    ELSE R(decLevel(q), <<>>)

\* the loop over assigns from the assignment t.i
assigns(q, t) ==
    IF t.i > Len(t.assigns) THEN R(IF t.anyNewline THEN decLevel(q) ELSE q, <<>>)
    ELSE LET a   == t.assigns[t.i]
             brk == q.curLine > 0 /\ PositionLine(a.Position) > q.curLine
             q1  == bslashNewl(q)
             q2  == indent(IF ~t.anyNewline THEN incLevel(q1) ELSE q1)
             q3  == IF brk THEN q2
                    ELSE IF q.wantSpace THEN space(q)
                    ELSE q
             q4  == IF a.Name # <<>>
                    THEN token(strValue(q3, a.Name), IF a.Append THEN "+=" ELSE "=", TRUE)
                    ELSE q3
         IN  R(q4, F_word(a.Value) \o
                   <<[t EXCEPT !.i = @ + 1, !.anyNewline = @ \/ brk]>>)

\* stmtLen(f, s): a printer of its own writes s to a buffer; the caller's
\* printer waits in the frame
stmtLen(q, t) ==
    IF t.at = 0
    THEN R(NewPrinter(ScratchBuffer, 0),
           <<F_stmt(t.s), [t EXCEPT !.at = 1, !.caller = <<q>>]>>)
    ELSE R([t.caller[1] EXCEPT !.reti = SumLen(q.out),
                               !.crashed = q.crashed], <<>>)

\* the operator goes on the line of x.X
binaryCmdSepSameLine(q, ypos) == [q EXCEPT !.curLine = ypos.line]

\* BinaryCmd, before the operator: a pending heredoc keeps the operator on
\* the line; a later line of x.Y gets a line continuation
binaryCmdSep(q, ypos) ==
    [(IF Len(q.pendingHdocs) > 0 THEN q
      ELSE IF ypos.line > q.curLine THEN indent(bslashNewl(q))
      ELSE q) EXCEPT !.curLine = ypos.line]

\* the frames of the elif branches of an if clause, in order
RECURSIVE F_elifs(_)
F_elifs(els) ==
    IF els = <<>> THEN <<>>
    ELSE <<F_semiRsrv("elif", Head(els).Elif, TRUE), F_cond(Head(els).Cond),
           F_semiOrNewl("then", Head(els).Then),
           F_nestedStmts(Head(els).ThenStmts)>> \o F_elifs(Tail(els))

\* the frames of the patterns of one case item: "|" (at 8) between the words
RECURSIVE F_patterns(_, _, _)
F_patterns(t, ws, i) ==
    IF i > Len(ws) THEN <<>>
    ELSE (IF i > 1 THEN <<[t EXCEPT !.at = 8]>> ELSE <<>>) \o
         <<F_spacedWord(ws[i])>> \o F_patterns(t, ws, i + 1)

\* at 1: CallExpr, the head of the loop over redirs; at 2: IfClause without
\* else statements; at 3, 4: BinaryCmd after p.stmt(x.X), after p.stmt(x.Y);
\* at 5: CaseClause after p.word(x.Word); at 6: the head of the loop over
\* x.List; at 7: after p.didSeparate; at 8: the "|" between two patterns;
\* at 10: after the patterns; at 11: after p.nestedStmts(pl.Stmts);
\* at 12: after p.sepTok; at 20: return startRedirs
\* only a heredoc ends the redirections written after the first word
callRedirsEndAtHdoc(x, r) == r.Op = "SHL" \/ r.Op = "DHEREDOC"

\* CallExpr: the loop over the redirections written after the first word
\* breaks at r
callRedirsEnd(x, r) ==
    \/ PosAfter(RedirPos(r), WordPos(x.Args[2]))
    \/ r.Op = "SHL" \/ r.Op = "DHEREDOC"

command(q, t) ==
    LET x  == t.x
        r  == t.redirs[t.i]
        pl == x.List[t.i]
        return == [t EXCEPT !.at = 20]
    IN  IF t.at = 0
        THEN CASE x.type = "CallExpr" ->
                    IF Len(x.Args) <= 1
                    THEN R(q, <<F_wordJoin(x.Args, TRUE), return>>)
                    ELSE R(q, <<F_wordJoin(SubSeq(x.Args, 1, 1), TRUE),
                                [t EXCEPT !.at = 1]>>)
               [] x.type = "Block" ->
                    R(spacedRsrv(q, "{"),
                      <<F_nestedStmts(x.Stmts), F_semiRsrv("}", x.Rbrace, TRUE), return>>)
               [] x.type = "IfClause" ->
                    R(spacedRsrv(q, "if"),
                      <<F_cond(x.Cond), F_semiOrNewl("then", x.Then),
                        F_nestedStmts(x.ThenStmts)>> \o F_elifs(x.Elifs) \o
                      (IF Len(x.ElseStmts) > 0
                       THEN <<F_semiRsrv("else", x.Else, TRUE), F_nestedStmts(x.ElseStmts)>>
                       ELSE <<[t EXCEPT !.at = 2]>>) \o
                      <<F_semiRsrv("fi", x.Fi, TRUE), return>>)
               [] x.type = "BinaryCmd" ->
                    R(q, <<F_stmt(x.X), [t EXCEPT !.at = 3]>>)
               [] x.type = "CaseClause" ->
                    R(spacedRsrv(q, "case "), F_word(x.Word) \o <<[t EXCEPT !.at = 5]>>)
               [] OTHER -> R([q EXCEPT !.reti = 0], <<>>)
        ELSE IF t.at = 1
        THEN IF t.i > Len(t.redirs) \/ callRedirsEnd(x, r)
             THEN R(q, <<F_wordJoin(Tail(x.Args), TRUE), return>>)
             ELSE R(redirect(q, r),
                    F_word(r.Word) \o
                    <<[t EXCEPT !.i = @ + 1, !.startRedirs = @ + 1]>>)
        ELSE IF t.at = 2
        THEN R(IF PosAfter(x.Else, NoPos)
               THEN [q EXCEPT !.curLine = PositionLine(x.Else)] ELSE q, <<>>)
        ELSE IF t.at = 3
        THEN LET ind  == ~q.nestedBinary
                 q1   == [(IF ind THEN incLevel(q) ELSE q) EXCEPT
                             !.nestedBinary = (x.Y.Cmd.type = "BinaryCmd"),
                             !.binIncs = IF ind THEN @ \cup {x.Y.Position} ELSE @]
                 ypos == Pos(PositionLine(x.Y.Position), x.Y.Position.col)
             IN  R(spacedTok(binaryCmdSep(q1, ypos), binaryCmdOp(x.Op), TRUE),
                   <<F_stmt(x.Y), [t EXCEPT !.at = 4, !.b = ind]>>)
        ELSE IF t.at = 4
        THEN R([(IF t.b THEN decLevel(q) ELSE q) EXCEPT
                   !.nestedBinary = FALSE, !.reti = 0], <<>>)
        ELSE IF t.at = 5
        THEN R(incLevel(rsrv(q, " in")), <<[t EXCEPT !.at = 6, !.i = 1]>>)
        ELSE IF t.at = 6
        THEN IF t.i > Len(x.List)
             THEN R(decLevel(q),
                    <<F_semiRsrv("esac", x.Esac, Len(x.List) = 0), return>>)
             ELSE R(q, <<F_didSeparate(Pos(PositionLine(WordPos(pl.Patterns[1])),
                                           WordPos(pl.Patterns[1]).col)),
                         [t EXCEPT !.at = 7]>>)
        ELSE IF t.at = 7
        THEN R(q, F_patterns(t, pl.Patterns, 1) \o <<[t EXCEPT !.at = 10]>>)
        ELSE IF t.at = 8
        THEN R(spacedTok(q, "|", TRUE), <<>>)
        ELSE IF t.at = 10
        THEN R(byte(q, ")"), <<F_nestedStmts(pl.Stmts), [t EXCEPT !.at = 11]>>)
        ELSE IF t.at = 11
        THEN LET sep   == q.ret
                 opPos == Pos(PositionLine(pl.OpPos), pl.OpPos.col)
                 q1    == [q EXCEPT !.level = @ + 1]
                 q2    == IF ~sep THEN [q1 EXCEPT !.curLine = @ + 1]
                          ELSE IF opPos.line = q1.curLine /\ pl.OpPos # x.Esac
                          THEN [q1 EXCEPT !.curLine = @ - 1]
                          ELSE q1
             IN  R(q2, <<F_sepTok(caseClauseOp(pl.Op), opPos), [t EXCEPT !.at = 12]>>)
        ELSE IF t.at = 12
        THEN R([q EXCEPT !.curLine = IF pl.OpPos = x.Esac THEN @ - 1 ELSE @,
                         !.level = @ - 1],
               <<[t EXCEPT !.at = 6, !.i = @ + 1]>>)
        ELSE R([q EXCEPT !.reti = t.startRedirs], <<>>)

\* at 1: the head of the loop over stmts; at 2: after p.stmt(s); at 3: the
\* head of the loop over stmts[i:], j being its index and lastLine2 its
\* lastLine; at 4: after stmtLen(p.f, s2); at 6: after stmtLen(p.f, s);
\* at 7: after p.stmt(s) of a single statement on the current line
stmts(q, t) ==
    LET ss   == t.stmts
        s    == ss[t.i]
        pos  == Pos(PositionLine(s.Position), s.Position.col)
        pos2 == Pos(PositionLine(ss[t.j].Position), ss[t.j].Position.col)
    IN  IF t.at = 0
        THEN IF Len(ss) = 0 THEN R([q EXCEPT !.ret = FALSE], <<>>)
             ELSE IF Len(ss) = 1 /\ pos.line = q.curLine
             THEN R(q, <<F_didSeparate(pos), F_stmt(s),
                         [t EXCEPT !.at = 7, !.n0 = Len(q.out)]>>)
             ELSE R(q, <<[t EXCEPT !.at = 1, !.lastLine = pos.line]>>)
        ELSE IF t.at = 1
        THEN IF t.i > Len(ss) THEN R([q EXCEPT !.wantNewline = TRUE, !.ret = TRUE], <<>>)
             ELSE R(q, <<F_alwaysSeparate(pos), F_stmt(s), [t EXCEPT !.at = 2]>>)
        ELSE IF t.at = 2
        THEN LET ii == IF pos.line > t.lastLine + 1 THEN 0 ELSE t.inlineIndent
                 t1 == [t EXCEPT !.lastLine = pos.line]
             IN  IF ~hasInline(q, pos)
                 THEN R(q, <<[t1 EXCEPT !.at = 1, !.i = @ + 1, !.inlineIndent = 0]>>)
                 ELSE IF ii = 0
                 THEN R(q, <<[t1 EXCEPT !.at = 3, !.inlineIndent = 0, !.j = t.i,
                                        !.lastLine2 = pos.line]>>)
                 ELSE R(q, <<F_stmtLen(s), [t1 EXCEPT !.at = 6, !.inlineIndent = ii]>>)
        ELSE IF t.at = 3
        THEN IF t.j > Len(ss) \/ ~hasInline(q, pos2) \/ pos2.line > t.lastLine2 + 1
             THEN R(q, <<F_stmtLen(s), [t EXCEPT !.at = 6]>>)
             ELSE R(q, <<F_stmtLen(ss[t.j]), [t EXCEPT !.at = 4]>>)
        ELSE IF t.at = 4
        THEN R(q, <<[t EXCEPT !.at = 3, !.j = @ + 1, !.lastLine2 = pos2.line,
                              !.inlineIndent = IF q.reti > @ THEN q.reti ELSE @]>>)
        ELSE IF t.at = 6
        THEN R([q EXCEPT !.wantSpaces = t.inlineIndent - q.reti],
               <<[t EXCEPT !.at = 1, !.i = @ + 1]>>)
        ELSE R([q EXCEPT !.ret = FALSE], <<>>)

----------------------------------------------------------------------------
(* Syntax trees.  The nodes are those of the parser's ast; a position is    *)
(* Pos(line, column).  Stmt.Position, Assign.Position and Redirect.NPos     *)
(* hold what the methods Stmt.Pos(), Assign.Pos() and Lit.Pos() return.     *)

Nm(base, k) == base \o ToString(k)

Lit(l, c, v) == [type |-> "Lit", Pos |-> Pos(l, c), Value |-> <<v>>]
Word(parts) == [Parts |-> parts]
W(l, c, v) == Word(<<Lit(l, c, v)>>)

Stmt(l, c, cmd, redirs) ==
    [Position |-> Pos(l, c), Negated |-> FALSE, Assigns |-> <<>>, Cmd |-> cmd,
     Redirs |-> redirs, Background |-> FALSE]

CallExpr(args) == [type |-> "CallExpr", Args |-> args]
NoCmd == [type |-> "nil"]

\* a call of one word, and of two words, on line l from column c
Call1(l, c, a) == Stmt(l, c, CallExpr(<<W(l, c, a)>>), <<>>)
Call2(l, c, a, b) == Stmt(l, c, CallExpr(<<W(l, c, a), W(l, c + 4, b)>>), <<>>)

Redirect(l, c, op, w) ==
    [OpPos |-> Pos(l, c), Op |-> op, N |-> <<>>, NPos |-> NoPos, Word |-> w,
     Hdoc |-> [Value |-> <<>>]]

\* <<word with the body in the lines after the command line
Heredoc(l, c, w, body) ==
    [OpPos |-> Pos(l, c), Op |-> "SHL", N |-> <<>>, NPos |-> NoPos, Word |-> w,
     Hdoc |-> [Value |-> body]]

Comment(l, c, text) == [Hash |-> Pos(l, c), Text |-> <<text>>]

Assign(l, c, name, val) ==
    [Position |-> Pos(l, c), Name |-> <<name>>, Append |-> FALSE, Value |-> val]

StmtCond(ss) == [type |-> "StmtCond", Stmts |-> ss]

\* cat1 <<E1 / b1 / E1
HdocStmt(l, c, k) ==
    Stmt(l, c, CallExpr(<<W(l, c, Nm("cat", k))>>),
         <<Heredoc(l, c + 5, W(l, c + 7, Nm("E", k)), <<Nm("b", k), "\n">>)>>)

\* The statements a file starts with.  Each is written from line l as the
\* parser would see it in the source text shown; k makes its words unique.
\* [s: the statement, e: the last source line it takes, cl: the line an
\* inline comment after it is on]
Shape(kind, l, k) ==
    CASE kind = "call" ->          \* a1 x1
            [s |-> Call2(l, 1, Nm("a", k), Nm("x", k)), e |-> l, cl |-> l]
      [] kind = "hdoc" ->          \* cat1 <<E1 / b1 / E1
            [s |-> HdocStmt(l, 1, k), e |-> l + 2, cl |-> l]
      [] kind = "hdocblank" ->     \* cat1 <<E1 / b1 / / / d1 / E1
            [s |-> Stmt(l, 1, CallExpr(<<W(l, 1, Nm("cat", k))>>),
                        <<Heredoc(l, 6, W(l, 8, Nm("E", k)),
                                  <<Nm("b", k), "\n", "\n", "\n", Nm("d", k), "\n">>)>>),
             e |-> l + 5, cl |-> l]
      [] kind = "hdocempty" ->     \* cat1 <<'' / b1 / (the empty line ends it)
            [s |-> Stmt(l, 1, CallExpr(<<W(l, 1, Nm("cat", k))>>),
                        <<Heredoc(l, 6, Word(<<[type |-> "SglQuoted", Pos |-> Pos(l, 8),
                                                Value |-> <<>>]>>),
                                  <<Nm("b", k), "\n">>)>>),
             e |-> l + 2, cl |-> l]
      [] kind = "hdoccont" ->      \* cat1 <<E1 \ / >o1 / b1 / E1
            [s |-> Stmt(l, 1, CallExpr(<<W(l, 1, Nm("cat", k))>>),
                        <<Heredoc(l, 6, W(l, 8, Nm("E", k)), <<Nm("b", k), "\n">>),
                          Redirect(l + 1, 2, "GTR", W(l + 1, 3, Nm("o", k)))>>),
             e |-> l + 3, cl |-> l + 1]
      [] kind = "hdoc2" ->         \* cat1 <<E1 <<F1 / b1 / E1 / d1 / F1
            [s |-> Stmt(l, 1, CallExpr(<<W(l, 1, Nm("cat", k))>>),
                        <<Heredoc(l, 6, W(l, 8, Nm("E", k)), <<Nm("b", k), "\n">>),
                          Heredoc(l, 11, W(l, 13, Nm("F", k)), <<Nm("d", k), "\n">>)>>),
             e |-> l + 4, cl |-> l]
      [] kind = "hdocsubst" ->     \* cat1 <<$(f1) / b1 / $(f1)
            [s |-> Stmt(l, 1, CallExpr(<<W(l, 1, Nm("cat", k))>>),
                        <<Heredoc(l, 6,
                                  Word(<<[type |-> "CmdSubst", Pos |-> Pos(l, 8),
                                          Right |-> Pos(l, 12),
                                          Stmts |-> <<Call1(l, 10, Nm("f", k))>>]>>),
                                  <<Nm("b", k), "\n">>)>>),
             e |-> l + 2, cl |-> l]
      [] kind = "hdocpipe" ->      \* cat1 <<E1 | v1=(x1 / b1 / E1 / y1)
            [s |-> Stmt(l, 1,
                        [type |-> "BinaryCmd", Op |-> "OR",
                         X |-> HdocStmt(l, 1, k),
                         Y |-> [Stmt(l, 13, NoCmd, <<>>) EXCEPT !.Assigns =
                                  <<Assign(l, 13, Nm("v", k),
                                      Word(<<[type |-> "ArrayExpr", Pos |-> Pos(l, 16),
                                              Rparen |-> Pos(l + 3, 3),
                                              List |-> <<W(l, 17, Nm("x", k)),
                                                         W(l + 3, 1, Nm("y", k))>>]>>))>>]],
                        <<>>),
             e |-> l + 3, cl |-> l + 3]
      [] kind = "block" ->         \* { / a1 / }
            [s |-> Stmt(l, 1, [type |-> "Block", Rbrace |-> Pos(l + 2, 1),
                               Stmts |-> <<Call1(l + 1, 2, Nm("a", k))>>], <<>>),
             e |-> l + 2, cl |-> l + 2]
      [] kind = "blockcm" ->       \* { / a1 / # ci1 / x1 / }
            [s |-> Stmt(l, 1, [type |-> "Block", Rbrace |-> Pos(l + 4, 1),
                               Stmts |-> <<Call1(l + 1, 2, Nm("a", k)),
                                           Call1(l + 3, 2, Nm("x", k))>>], <<>>),
             e |-> l + 4, cl |-> l + 4]
      [] kind = "blockhdoc" ->     \* { / cat1 <<E1 / b1 / E1 / a1 / }
            [s |-> Stmt(l, 1, [type |-> "Block", Rbrace |-> Pos(l + 5, 1),
                               Stmts |-> <<HdocStmt(l + 1, 2, k),
                                           Call1(l + 4, 2, Nm("a", k))>>], <<>>),
             e |-> l + 5, cl |-> l + 5]
      [] kind = "if1" ->           \* if a1; then x1; fi
            [s |-> Stmt(l, 1, [type |-> "IfClause",
                               Cond |-> StmtCond(<<Call1(l, 4, Nm("a", k))>>),
                               Then |-> Pos(l, 8),
                               ThenStmts |-> <<Call1(l, 13, Nm("x", k))>>,
                               Elifs |-> <<>>, Else |-> NoPos, ElseStmts |-> <<>>,
                               Fi |-> Pos(l, 17)], <<>>),
             e |-> l, cl |-> l]
      [] kind = "ifelse" ->        \* if a1; then / x1 / else / y1 / fi
            [s |-> Stmt(l, 1, [type |-> "IfClause",
                               Cond |-> StmtCond(<<Call1(l, 4, Nm("a", k))>>),
                               Then |-> Pos(l, 8),
                               ThenStmts |-> <<Call1(l + 1, 2, Nm("x", k))>>,
                               Elifs |-> <<>>, Else |-> Pos(l + 2, 1),
                               ElseStmts |-> <<Call1(l + 3, 2, Nm("y", k))>>,
                               Fi |-> Pos(l + 4, 1)], <<>>),
             e |-> l + 4, cl |-> l + 4]
      [] kind = "case" ->          \* case $x in / a) / foo / ;; / b | c) / bar / ;; / esac
            [s |-> Stmt(l, 1, [type |-> "CaseClause",
                               Word |-> Word(<<[type |-> "ParamExp", Pos |-> Pos(l, 6),
                                                Param |-> [Value |-> <<"x">>]]>>),
                               List |-> <<[Patterns |-> <<W(l + 1, 1, "a")>>,
                                           Stmts |-> <<Call1(l + 2, 2, Nm("foo", k))>>,
                                           OpPos |-> Pos(l + 3, 2), Op |-> "DSEMICOLON"],
                                          [Patterns |-> <<W(l + 4, 1, "b"), W(l + 4, 5, "c")>>,
                                           Stmts |-> <<Call1(l + 5, 2, Nm("bar", k))>>,
                                           OpPos |-> Pos(l + 6, 2), Op |-> "DSEMICOLON"]>>,
                               Esac |-> Pos(l + 7, 1)], <<>>),
             e |-> l + 7, cl |-> l + 7]
      [] kind = "case1" ->         \* case $x in a) foo ;; b | c) bar ;; esac
            [s |-> Stmt(l, 1, [type |-> "CaseClause",
                               Word |-> Word(<<[type |-> "ParamExp", Pos |-> Pos(l, 6),
                                                Param |-> [Value |-> <<"x">>]]>>),
                               List |-> <<[Patterns |-> <<W(l, 12, "a")>>,
                                           Stmts |-> <<Call1(l, 15, Nm("foo", k))>>,
                                           OpPos |-> Pos(l, 20), Op |-> "DSEMICOLON"],
                                          [Patterns |-> <<W(l, 23, "b"), W(l, 27, "c")>>,
                                           Stmts |-> <<Call1(l, 30, Nm("bar", k))>>,
                                           OpPos |-> Pos(l, 35), Op |-> "DSEMICOLON"]>>,
                               Esac |-> Pos(l, 38)], <<>>),
             e |-> l, cl |-> l]
      [] kind = "pipe" ->          \* a1 | x1 / | y1   (y1 on the next line)
            [s |-> Stmt(l, 1,
                        [type |-> "BinaryCmd", Op |-> "OR",
                         X |-> Stmt(l, 1, [type |-> "BinaryCmd", Op |-> "OR",
                                           X |-> Call1(l, 1, Nm("a", k)),
                                           Y |-> Call1(l, 6, Nm("x", k))], <<>>),
                         Y |-> Call1(l + 1, 3, Nm("y", k))], <<>>),
             e |-> l + 1, cl |-> l + 1]
      [] kind = "subst" ->         \* a1 $(x1 / y1)
            [s |-> Stmt(l, 1, CallExpr(<<W(l, 1, Nm("a", k)),
                                 Word(<<[type |-> "CmdSubst", Pos |-> Pos(l, 4),
                                         Right |-> Pos(l + 1, 3),
                                         Stmts |-> <<Call1(l, 6, Nm("x", k)),
                                                     Call1(l + 1, 1, Nm("y", k))>>]>>)>>),
                        <<>>),
             e |-> l + 1, cl |-> l + 1]
      [] kind = "squote" ->        \* a1 'x1 / y1'
            [s |-> Stmt(l, 1, CallExpr(<<W(l, 1, Nm("a", k)),
                                 Word(<<[type |-> "SglQuoted", Pos |-> Pos(l, 4),
                                         Value |-> <<Nm("x", k), "\n", Nm("y", k)>>]>>)>>),
                        <<>>),
             e |-> l + 1, cl |-> l + 1]
      [] kind = "pipe3" ->         \* a1 | b1 | c1
            [s |-> Stmt(l, 1,
                        [type |-> "BinaryCmd", Op |-> "OR",
                         X |-> Call1(l, 1, Nm("a", k)),
                         Y |-> Stmt(l, 6, [type |-> "BinaryCmd", Op |-> "OR",
                                           X |-> Call1(l, 6, Nm("b", k)),
                                           Y |-> Call1(l, 11, Nm("c", k))], <<>>)],
                        <<>>),
             e |-> l, cl |-> l]
      [] kind = "pipe3c" ->        \* a1 | b1 | / c1   (c1 on the next line)
            [s |-> Stmt(l, 1,
                        [type |-> "BinaryCmd", Op |-> "OR",
                         X |-> Call1(l, 1, Nm("a", k)),
                         Y |-> Stmt(l, 6, [type |-> "BinaryCmd", Op |-> "OR",
                                           X |-> Call1(l, 6, Nm("b", k)),
                                           Y |-> Call1(l + 1, 2, Nm("c", k))], <<>>)],
                        <<>>),
             e |-> l + 1, cl |-> l + 1]
      [] kind = "blockpipe3c" ->   \* { / a1 | b1 | / c1 / }
            [s |-> Stmt(l, 1, [type |-> "Block", Rbrace |-> Pos(l + 3, 1),
                               Stmts |-> <<Stmt(l + 1, 2,
                                   [type |-> "BinaryCmd", Op |-> "OR",
                                    X |-> Call1(l + 1, 2, Nm("a", k)),
                                    Y |-> Stmt(l + 1, 7,
                                               [type |-> "BinaryCmd", Op |-> "OR",
                                                X |-> Call1(l + 1, 7, Nm("b", k)),
                                                Y |-> Call1(l + 2, 2, Nm("c", k))],
                                               <<>>)], <<>>)>>], <<>>),
             e |-> l + 3, cl |-> l + 3]
      [] kind = "pipeblock" ->     \* a1 | { / b1 | / c1 / } | d1
            [s |-> Stmt(l, 1,
                        [type |-> "BinaryCmd", Op |-> "OR",
                         X |-> Call1(l, 1, Nm("a", k)),
                         Y |-> Stmt(l, 6,
                             [type |-> "BinaryCmd", Op |-> "OR",
                              X |-> Stmt(l, 6,
                                  [type |-> "Block", Rbrace |-> Pos(l + 3, 1),
                                   Stmts |-> <<Stmt(l + 1, 2,
                                       [type |-> "BinaryCmd", Op |-> "OR",
                                        X |-> Call1(l + 1, 2, Nm("b", k)),
                                        Y |-> Call1(l + 2, 2, Nm("c", k))],
                                       <<>>)>>], <<>>),
                              Y |-> Call1(l + 3, 5, Nm("d", k))], <<>>)],
                        <<>>),
             e |-> l + 3, cl |-> l + 3]
      [] kind = "ifproc" ->        \* if cat1 <(a1 / b1); then c1; fi
            [s |-> Stmt(l, 1, [type |-> "IfClause",
                               Cond |-> StmtCond(<<Stmt(l, 4, CallExpr(<<
                                   W(l, 4, Nm("cat", k)),
                                   Word(<<[type |-> "ProcSubst", Pos |-> Pos(l, 9),
                                           Op |-> "CMDIN",
                                           Stmts |-> <<Call1(l, 11, Nm("a", k)),
                                                       Call1(l + 1, 1, Nm("b", k))>>]>>)
                                   >>), <<>>)>>),
                               Then |-> Pos(l + 1, 6),
                               ThenStmts |-> <<Call1(l + 1, 11, Nm("c", k))>>,
                               Elifs |-> <<>>, Else |-> NoPos, ElseStmts |-> <<>>,
                               Fi |-> Pos(l + 1, 15)], <<>>),
             e |-> l + 1, cl |-> l + 1]
      [] kind = "hdocmid" ->       \* cat1 <i1 <<E1 >o1 x1 / b1 / E1
            [s |-> Stmt(l, 1, CallExpr(<<W(l, 1, Nm("cat", k)), W(l, 19, Nm("x", k))>>),
                        <<Redirect(l, 6, "LSS", W(l, 7, Nm("i", k))),
                          Heredoc(l, 10, W(l, 12, Nm("E", k)), <<Nm("b", k), "\n">>),
                          Redirect(l, 15, "GTR", W(l, 16, Nm("o", k)))>>),
             e |-> l + 2, cl |-> l]
      [] kind = "blockrun" ->      \* { / bbb1 # ci1 / a1 # cj1 / }
            [s |-> Stmt(l, 1, [type |-> "Block", Rbrace |-> Pos(l + 3, 1),
                               Stmts |-> <<Call1(l + 1, 2, Nm("bbb", k)),
                                           Call1(l + 2, 2, Nm("a", k))>>], <<>>),
             e |-> l + 3, cl |-> l + 3]
      [] kind = "blocksubst" ->    \* { cat1 <<$(f1) / b1 / $(f1) / # ci1 / }
            [s |-> Stmt(l, 1, [type |-> "Block", Rbrace |-> Pos(l + 4, 1),
                               Stmts |-> <<Stmt(l, 3, CallExpr(<<W(l, 3, Nm("cat", k))>>),
                                   <<Heredoc(l, 8,
                                       Word(<<[type |-> "CmdSubst", Pos |-> Pos(l, 10),
                                               Right |-> Pos(l, 14),
                                               Stmts |-> <<Call1(l, 12, Nm("f", k))>>]>>),
                                       <<Nm("b", k), "\n">>)>>)>>], <<>>),
             e |-> l + 4, cl |-> l + 4]
      [] kind = "case2" ->         \* case $x in / a) / foo1 / bar1 ;; / esac
            [s |-> Stmt(l, 1, [type |-> "CaseClause",
                               Word |-> Word(<<[type |-> "ParamExp", Pos |-> Pos(l, 6),
                                                Param |-> [Value |-> <<"x">>]]>>),
                               List |-> <<[Patterns |-> <<W(l + 1, 1, "a")>>,
                                           Stmts |-> <<Call1(l + 2, 2, Nm("foo", k)),
                                                       Call1(l + 3, 2, Nm("bar", k))>>,
                                           OpPos |-> Pos(l + 3, 7), Op |-> "DSEMICOLON"]>>,
                               Esac |-> Pos(l + 4, 1)], <<>>),
             e |-> l + 4, cl |-> l + 4]
      [] kind = "casenoop" ->      \* case $x in / a) / foo1 / esac
            [s |-> Stmt(l, 1, [type |-> "CaseClause",
                               Word |-> Word(<<[type |-> "ParamExp", Pos |-> Pos(l, 6),
                                                Param |-> [Value |-> <<"x">>]]>>),
                               List |-> <<[Patterns |-> <<W(l + 1, 1, "a")>>,
                                           Stmts |-> <<Call1(l + 2, 2, Nm("foo", k))>>,
                                           OpPos |-> Pos(l + 3, 1), Op |-> "DSEMICOLON"]>>,
                               Esac |-> Pos(l + 3, 1)], <<>>),
             e |-> l + 3, cl |-> l + 3]
      [] kind = "ifcm" ->          \* if a1 # ci1 / then b1; fi
            [s |-> Stmt(l, 1, [type |-> "IfClause",
                               Cond |-> StmtCond(<<Call1(l, 4, Nm("a", k))>>),
                               Then |-> Pos(l + 1, 1),
                               ThenStmts |-> <<Call1(l + 1, 6, Nm("b", k))>>,
                               Elifs |-> <<>>, Else |-> NoPos, ElseStmts |-> <<>>,
                               Fi |-> Pos(l + 1, 10)], <<>>),
             e |-> l + 1, cl |-> l + 1]
      [] OTHER ->                  \* a1 \ / x1 >o1 &
            [s |-> [Stmt(l, 1, CallExpr(<<W(l, 1, Nm("a", k)), W(l + 1, 2, Nm("x", k))>>),
                         <<Redirect(l + 1, 5, "GTR", W(l + 1, 6, Nm("o", k)))>>)
                    EXCEPT !.Background = TRUE],
             e |-> l + 1, cl |-> l + 1]

\* the comments inside a statement of Shape
ShapeComments(kind, l, k) ==
    IF kind = "blockcm" THEN <<Comment(l + 2, 1, Nm("ci", k))>>
    ELSE IF kind = "ifcm" THEN <<Comment(l, 7, Nm("ci", k))>>
    ELSE IF kind = "blocksubst" THEN <<Comment(l + 3, 1, Nm("ci", k))>>
    ELSE IF kind = "blockrun"
    THEN <<Comment(l + 1, 7, Nm("ci", k)), Comment(l + 2, 5, Nm("cj", k))>>
    ELSE <<>>

FirstShapes ==
    {"call", "hdoc", "hdocblank", "hdocempty", "hdoccont", "hdoc2", "hdocsubst",
     "hdocpipe", "block", "blockcm", "blockhdoc", "if1", "ifelse", "case", "case1",
     "pipe", "subst", "squote", "argcont"}

\* further statements a file starts with, followed by a call or by nothing
MoreShapes ==
    {"pipe3", "pipe3c", "blockpipe3c", "pipeblock", "case2", "casenoop", "ifcm",
     "ifproc", "hdocmid", "blockrun", "blocksubst"}

NextShapes == {"call", "hdoc", "block"}

\* What may follow a statement: nothing, a comment on its last line, or a
\* comment on a line of its own.
CommentKinds == {"none", "inline", "own"}

\* The file: a first statement from line 1 (or none), a second one g lines
\* below the end of the first (or none), each with the comment c1, c2 after
\* it (an own-line comment is g lines below the statement, and what follows
\* is g lines below the comment).
File(k1, c1, k2, c2, g) ==
    LET s1 == Shape(k1, 1, 1)
        e1 == IF k1 = "none" THEN 0
              ELSE IF c1 = "own" THEN s1.e + g
              ELSE s1.e
        m1 == IF k1 = "none" THEN (IF c1 = "own" THEN <<Comment(1, 1, "c1")>> ELSE <<>>)
              ELSE IF c1 = "inline" THEN <<Comment(s1.cl, 40, "c1")>>
              ELSE IF c1 = "own" THEN <<Comment(e1, 1, "c1")>>
              ELSE <<>>
        l2 == IF k1 = "none" THEN (IF c1 = "own" THEN 1 + g ELSE 1) ELSE e1 + g
        s2 == Shape(k2, l2, 2)
        m2 == IF k2 = "none" THEN <<>>
              ELSE IF c2 = "inline" THEN <<Comment(s2.cl, 40, "c2")>>
              ELSE IF c2 = "own" THEN <<Comment(s2.e + g, 1, "c2")>>
              ELSE <<>>
    IN  [Stmts |-> (IF k1 = "none" THEN <<>> ELSE <<s1.s>>) \o
                   (IF k2 = "none" THEN <<>> ELSE <<s2.s>>),
         Comments |-> (IF k1 = "none" THEN <<>> ELSE ShapeComments(k1, 1, 1)) \o m1 \o
                      (IF k2 = "none" THEN <<>> ELSE ShapeComments(k2, l2, 2)) \o m2]

----------------------------------------------------------------------------
(* PrintConfig.Fprint, src/print.go:24-41, and the steps of the calls *)

\* a writer left in the pool by an earlier print: its buffer and its error
\* are whatever that print left
StaleWriter ==
    [kind |-> "bufio", n |-> 0, err |-> "stale", sunk |-> 0, calls |-> 1,
     failAt |-> 1]

\* Fprint is called with a file, the options (tabs, or two spaces) and a
\* sink that never fails or fails from its failAt-th Write on.  The options
\* and the failures other than the default are tried on the files whose
\* nodes are on adjacent lines and that end with a statement.
Init ==
    /\ pc = "get"
    /\ \E k1 \in FirstShapes \cup MoreShapes \cup {"none"}, c1 \in CommentKinds,
          k2 \in NextShapes \cup {"none"}, c2 \in CommentKinds, g \in 1..MaxGap,
          spc \in {0, 2}, failAt \in 0..MaxFail :
          /\ spc = 0 \/ failAt = 0
          /\ (spc = 0 /\ failAt = 0) \/ (g = 1 /\ c2 = "none")
          /\ k1 \in MoreShapes => (k2 \in {"none", "call"} /\ c2 = "none" /\ g <= 2)
          /\ f = File(k1, c1, k2, c2, g)
          /\ p = NewPrinter([StaleWriter EXCEPT !.failAt = failAt], spc)
    /\ stack = <<>>
    /\ writerFree = <<StaleWriter>>
    /\ result = "none"

\* bw := writerFree.Get(); bw.Reset(w); p := printer{w: bw, f: f, c: c};
\* p.comments = f.Comments
Get ==
    /\ pc = "get"
    /\ p' = [NewPrinter(ResetWriter(p.w.failAt), p.c.Spaces) EXCEPT
                !.comments = f.Comments]
    /\ writerFree' = IF writerFree = <<>> THEN <<>> ELSE Tail(writerFree)
    /\ pc' = "stmts"
    /\ UNCHANGED <<f, stack, result>>

\* Fprint calls a method of the printer and goes on when it has returned
Call(at, frame, next) ==
    /\ pc = at
    /\ stack = <<>>
    /\ stack' = <<frame>>
    /\ pc' = next
    /\ UNCHANGED <<f, p, writerFree, result>>

\* p.stmts(f.Stmts)
CallStmts == Call("stmts", F_stmts(f.Stmts), "comments")

\* p.commentsUpTo(0)
CallCommentsUpTo == Call("comments", F_commentsUpTo(0), "newline")

\* Fprint goes on to the flush without the call
NoNewline ==
    /\ pc = "newline"
    /\ stack = <<>>
    /\ pc' = "flush"
    /\ UNCHANGED <<f, p, stack, writerFree, result>>

\* p.newline()
CallNewline == Call("newline", F_newline, "flush")

\* the call on top of the stack runs up to its next call or to its return;
\* a panic or an exhausted stack ends the program
Run(fn, r) ==
    /\ stack # <<>>
    /\ Head(stack).fn = fn
    /\ p' = r.p
    /\ IF r.p.crashed # "no"
       THEN stack' = <<>> /\ pc' = "crashed"
       ELSE stack' = r.push \o Tail(stack) /\ pc' = pc
    /\ UNCHANGED <<f, writerFree, result>>

Step_semiOrNewl == Run("semiOrNewl", semiOrNewl(p, Head(stack)))
Step_newline == Run("newline", newline(p, Head(stack)))
Step_newlines == Run("newlines", newlines(p, Head(stack)))
Step_alwaysSeparate == Run("alwaysSeparate", alwaysSeparate(p, Head(stack)))
Step_didSeparate == Run("didSeparate", didSeparate(p, Head(stack)))
Step_sepTok == Run("sepTok", sepTok(p, Head(stack)))
Step_semiRsrv == Run("semiRsrv", semiRsrv(p, Head(stack)))
Step_commentsUpTo == Run("commentsUpTo", commentsUpTo(p, Head(stack)))
Step_wordPart == Run("wordPart", wordPart(p, Head(stack)))
Step_unquotedWord == Run("unquotedWord", unquotedWord(p, Head(stack)))
Step_spacedWord == Run("spacedWord", spacedWord(p, Head(stack)))
Step_wordJoin == Run("wordJoin", wordJoin(p, Head(stack)))
Step_cond == Run("cond", cond(p, Head(stack)))
Step_stmt == Run("stmt", stmt(p, Head(stack)))
Step_command == Run("command", command(p, Head(stack)))
Step_stmts == Run("stmts", stmts(p, Head(stack)))
Step_nestedStmts == Run("nestedStmts", nestedStmts(p, Head(stack)))
Step_assigns == Run("assigns", assigns(p, Head(stack)))
Step_stmtLen == Run("stmtLen", stmtLen(p, Head(stack)))

\* if p.err == nil { p.err = bw.Flush() }
FlushWriter ==
    /\ pc = "flush"
    /\ stack = <<>>
    /\ p' = IF p.err = Nil
            THEN LET w == Flush(p.w) IN [p EXCEPT !.w = w, !.err = w.err]
            ELSE p
    /\ pc' = "put"
    /\ UNCHANGED <<f, stack, writerFree, result>>

\* writerFree.Put(p.w); return p.err
Put ==
    /\ pc = "put"
    /\ writerFree' = Append(writerFree, p.w)
    /\ result' = p.err
    /\ pc' = "done"
    /\ UNCHANGED <<f, p, stack>>

Next ==
    \/ Get \/ CallStmts \/ CallCommentsUpTo \/ CallNewline \/ FlushWriter \/ Put
    \/ Step_semiOrNewl \/ Step_newline \/ Step_newlines \/ Step_alwaysSeparate
    \/ Step_didSeparate \/ Step_sepTok \/ Step_semiRsrv \/ Step_commentsUpTo
    \/ Step_wordPart \/ Step_unquotedWord \/ Step_spacedWord \/ Step_wordJoin
    \/ Step_cond \/ Step_stmt \/ Step_command \/ Step_stmts \/ Step_nestedStmts
    \/ Step_assigns \/ Step_stmtLen

Spec == Init /\ [][Next]_vars

----------------------------------------------------------------------------
(* What the properties speak of *)

\* the printer of Fprint is running (and not the printer of a stmtLen)
Main == p.w.kind = "bufio"

\* Fprint has returned nil: all that was written is the output
Printed == pc = "done" /\ result = Nil

\* the chunk ends an output line
EndsLine(c) == c = "\n" \/ c = " \\\n"

IsHdoc(r) == r.Op = "SHL" \/ r.Op = "DHEREDOC"

RECURSIVE HdocsOf(_)
\* the heredoc redirections a statement carries, those of the operands of a
\* pipeline included, in the order they are queued
HdocsOf(s) ==
    (IF s.Cmd.type = "BinaryCmd" THEN HdocsOf(s.Cmd.X) \o HdocsOf(s.Cmd.Y)
     ELSE <<>>) \o SelectSeq(s.Redirs, IsHdoc)

RECURSIVE FirstChunk(_)
\* the first chunk Fprint writes for a statement
FirstChunk(s) ==
    CASE s.Cmd.type = "CallExpr" -> s.Cmd.Args[1].Parts[1].Value[1]
      [] s.Cmd.type = "Block" -> "{"
      [] s.Cmd.type = "IfClause" -> "if"
      [] s.Cmd.type = "CaseClause" -> "case "
      [] s.Cmd.type = "BinaryCmd" -> FirstChunk(s.Cmd.X)
      [] OTHER -> s.Assigns[1].Name[1]

RECURSIVE PlainText(_)
\* the text of word parts that are literals or quoted text
PlainText(parts) ==
    IF parts = <<>> THEN <<>>
    ELSE (IF Head(parts).type \in {"Lit", "SglQuoted"} THEN Head(parts).Value
          ELSE <<>>) \o PlainText(Tail(parts))

\* what the drain writes for a heredoc: the body, the terminator, a newline
HdocText(r) == r.Hdoc.Value \o PlainText(r.Word.Parts) \o <<"\n">>

\* the chunks v are in o from index i
At(o, v, i) == i >= 1 /\ i + Len(v) - 1 <= Len(o) /\ SubSeq(o, i, i + Len(v) - 1) = v

\* the places of the chunk c in o
Places(o, c) == {i \in 1..Len(o) : o[i] = c}

Last(S) == CHOOSE i \in S : \A j \in S : j <= i

\* the statement lists of the file: the top-level one and those of the
\* blocks in it
StmtLists ==
    {f.Stmts} \cup
    {f.Stmts[i].Cmd.Stmts : i \in {j \in 1..Len(f.Stmts) : f.Stmts[j].Cmd.type = "Block"}}

----------------------------------------------------------------------------
(* C1 *)

\* C1: when Fprint has printed the file, for every statement S of a
\* statement list that carries a heredoc and is followed by a statement T in
\* the list, the body, the terminator word and its newline stand in the
\* output on lines of their own, after a newline that follows the start of
\* S and before the first chunk of T.
HdocPlacement ==
    Printed =>
        \A ss \in StmtLists : \A i \in 1..(Len(ss) - 1) :
            \A k \in 1..Len(HdocsOf(ss[i])) :
                LET text == HdocText(HdocsOf(ss[i])[k])
                    iS   == Last(Places(p.out, FirstChunk(ss[i])))
                    iT   == Last(Places(p.out, FirstChunk(ss[i + 1])))
                IN  \E j \in (iS + 1)..iT :
                        /\ p.out[j - 1] = "\n"
                        /\ At(p.out, text, j)
                        /\ j + Len(text) - 1 < iT

HdocPlacementWitness ==
    /\ Printed
    /\ \E ss \in StmtLists : \E i \in 1..(Len(ss) - 1) : HdocsOf(ss[i]) # <<>>

----------------------------------------------------------------------------
(* C2 *)

\* the places in the output where the body of the heredoc r starts
BodyPlaces(r) == {i \in 1..Len(p.out) : At(p.out, r.Hdoc.Value, i)}

\* C2: every heredoc body appended to pendingHdocs is written exactly once
\* (never a second time while the print runs, once when Fprint has
\* returned), the bodies are written in the order they were appended, and
\* pendingHdocs is empty when Fprint returns.
HdocExactlyOnce ==
    Main =>
        /\ \A k \in 1..Len(p.queued) : Cardinality(BodyPlaces(p.queued[k])) <= 1
        /\ Printed =>
              /\ p.pendingHdocs = <<>>
              /\ \A k \in 1..Len(p.queued) : Cardinality(BodyPlaces(p.queued[k])) = 1
              /\ \A k, m \in 1..Len(p.queued) :
                    k < m => \A i \in BodyPlaces(p.queued[k]), j \in BodyPlaces(p.queued[m]) :
                                i < j

----------------------------------------------------------------------------
(* C3 *)

\* the chunks a step of the printer of Fprint writes
Written == SubSeq(p'.out, Len(p.out) + 1, Len(p'.out))

\* the step is one of the heredoc loop of newline()
InDrain == stack # <<>> /\ Head(stack).fn = "newline" /\ Head(stack).at >= 1

\* newline() is about to loop over the heredocs hs from the first
Draining(st, hs) ==
    /\ st # <<>>
    /\ Head(st).fn = "newline" /\ Head(st).at = 1 /\ Head(st).i = 1
    /\ Head(st).hs = hs

----------------------------------------------------------------------------
(* C4 *)

\* C4: levelIncs holds one entry for every incLevel call whose decLevel
\* call has not come yet (each decLevel takes the entry of the last open
\* incLevel), the level is never negative, and when Fprint returns the
\* calls of incLevel and of decLevel are equally many, levelIncs is empty
\* and level is 0.
IndentBalance ==
    /\ Len(p.levelIncs) = p.nInc - p.nDec
    /\ p.level >= 0
    /\ pc = "done" => /\ p.nInc = p.nDec
                      /\ p.levelIncs = <<>>
                      /\ p.level = 0

\* a print with nested increments, one of them taken over by the next, has
\* returned
IndentBalanceWitness ==
    /\ pc = "done"
    /\ p.nInc >= 3
    /\ \E i \in 1..Len(f.Stmts) : f.Stmts[i].Cmd.type \in {"CaseClause", "IfClause"}

----------------------------------------------------------------------------
(* C5 *)

RECURSIVE CommentTexts(_)
\* the texts of the comments in the output o, in its order
CommentTexts(o) ==
    IF Len(o) < 2 THEN <<>>
    ELSE IF Head(o) = "#" THEN <<o[2]>> \o CommentTexts(Tail(Tail(o)))
    ELSE CommentTexts(Tail(o))

\* the texts of the comments cs
Texts(cs) == [i \in 1..Len(cs) |-> cs[i].Text[1]]

\* C5: while the writer has no error, the comments written so far followed
\* by the backlog are the comments of the file in their order (each written
\* once, none skipped or moved); the backlog is empty when Fprint returns;
\* and every call commentsUpTo(line) that has returned took from the
\* backlog it found exactly the leading comments on lines before line
\* (line > 0), or all of it (line = 0).
CommentsOnceInOrder ==
    /\ (Main /\ pc # "get" /\ p.w.err = Nil) =>
          CommentTexts(p.out) \o Texts(p.comments) = Texts(f.Comments)
    /\ pc = "done" => p.comments = <<>>
    /\ \A e \in p.cmtLog :
          LET n == Len(e.before) - Len(e.after)
          IN  /\ n >= 0
              /\ e.after = SubSeq(e.before, n + 1, Len(e.before))
              /\ e.line = 0 => e.after = <<>>
              /\ e.line > 0 =>
                    /\ \A i \in 1..n : PositionLine(e.before[i].Hash) < e.line
                    /\ e.after # <<>> => PositionLine(e.after[1].Hash) >= e.line

\* a file with two comments has been printed, and a call with line > 0
\* wrote one comment and left the other
CommentsOnceInOrderWitness ==
    /\ Printed
    /\ Len(f.Comments) >= 2
    /\ \E e \in p.cmtLog :
          e.line > 0 /\ e.after # <<>> /\ Len(e.before) > Len(e.after)

----------------------------------------------------------------------------
(* C6 *)

Whitespace == {" ", "\t"}

\* the chunks of the output line of o[i] that stand before o[i]
LineBefore(o, i) ==
    LET from == Last({j \in 0..(i - 1) : j = 0 \/ EndsLine(o[j])})
    IN  SubSeq(o, from + 1, i - 1)

\* the place of the "#" of the comment c in the output
HashPlace(c) == Last(Places(p.out, c.Text[1])) - 1

\* the comment has its source line to itself: it starts in the first column
OwnLine(c) == c.Hash.col = 1

\* C6: in a printed file, a comment alone on line N between two statements
\* S, T of a list that start on lines N-1 and N+1 stands after the start of
\* S and before T with nothing but newlines and indentation between it and
\* T, on a line of its own that starts after a newline with the indentation
\* T has; a comment on a source line of the statement S before it stands
\* after a space after text of that output line, on the output line S
\* starts if that is its source line.
CommentFidelity ==
    Printed =>
        \A n \in 1..Len(f.Comments) :
            LET c  == f.Comments[n]
                N  == PositionLine(c.Hash)
                iC == HashPlace(c)
            IN  /\ \A ss \in StmtLists : \A i \in 1..(Len(ss) - 1) :
                     (/\ OwnLine(c)
                          /\ PositionLine(ss[i].Position) = N - 1
                          /\ PositionLine(ss[i + 1].Position) = N + 1)
                     => /\ p.out[iC] = "#"
                        /\ iC - Len(LineBefore(p.out, iC)) > 1
                        /\ \A j \in 1..Len(LineBefore(p.out, iC)) :
                              LineBefore(p.out, iC)[j] \in Whitespace
                        /\ \E iS \in Places(p.out, FirstChunk(ss[i])) : iS < iC
                        /\ \E iT \in Places(p.out, FirstChunk(ss[i + 1])) :
                              /\ iC < iT
                              /\ LineBefore(p.out, iC) = LineBefore(p.out, iT)
                              /\ \A j \in (iC + 2)..(iT - 1) :
                                    p.out[j] \in Whitespace \cup {"\n"}
                /\ \A i \in 1..Len(f.Stmts) :
                     (/\ ~OwnLine(c)
                      /\ PositionLine(f.Stmts[i].Position) <= N
                      /\ i < Len(f.Stmts) => PositionLine(f.Stmts[i + 1].Position) > N)
                     => /\ p.out[iC] = "#"
                        /\ \E k \in 1..(iC - 2) :
                              /\ p.out[k] \notin Whitespace /\ ~EndsLine(p.out[k])
                              /\ \A j \in (k + 1)..(iC - 1) : p.out[j] = " "
                        /\ \E iS \in Places(p.out, FirstChunk(f.Stmts[i])) :
                              /\ iS < iC
                              /\ PositionLine(f.Stmts[i].Position) = N
                                 => \A j \in iS..iC : ~EndsLine(p.out[j])

\* a printed file with a comment on a line of its own between two adjacent
\* statements, and one with a comment on the line of its statement
CommentFidelityWitness ==
    /\ Printed
    /\ \E ss \in StmtLists : \E i \in 1..(Len(ss) - 1) : \E n \in 1..Len(f.Comments) :
          /\ OwnLine(f.Comments[n])
          /\ PositionLine(ss[i].Position) = PositionLine(f.Comments[n].Hash) - 1
          /\ PositionLine(ss[i + 1].Position) = PositionLine(f.Comments[n].Hash) + 1
    /\ \E i \in 1..Len(f.Stmts) : \E n \in 1..Len(f.Comments) :
          /\ ~OwnLine(f.Comments[n])
          /\ PositionLine(f.Stmts[i].Position) = PositionLine(f.Comments[n].Hash)

----------------------------------------------------------------------------
(* C7 *)

\* no two empty lines one after the other in o
NoBlankRun(o) ==
    ~\E i \in 1..(Len(o) - 1) :
        o[i] = "\n" /\ o[i + 1] = "\n" /\ (i = 1 \/ EndsLine(o[i - 1]))

\* the copied text v has an empty line
HasBlank(v) == \E i \in 1..Len(v) : v[i] = "\n" /\ (i = 1 \/ v[i - 1] = "\n")

\* C7 as claimed: the output never has a run of more than one blank line.
BlankLineCap == Printed => NoBlankRun(p.out)

\* C7: a call of newlines() writes at most one newline after the one of
\* newline(), whatever the gap; and a printed output has a run of more than
\* one blank line only if text copied from the tree as it is (a heredoc
\* body with its terminator line, a quoted string) has an empty line.
BlankLineCapOfSeparators ==
    /\ []((Printed /\ \A v \in p.verbatim : ~HasBlank(v)) => NoBlankRun(p.out))
    /\ [][(/\ Main /\ stack # <<>>
            /\ Head(stack).fn = "newlines" /\ Head(stack).at = 1)
           => CountNl(Written) <= 1]_vars

\* a printed file whose second statement is three or more lines below the
\* first, with one blank line in the output
BlankLineCapWitness ==
    /\ Printed
    /\ \A v \in p.verbatim : ~HasBlank(v)
    /\ Len(f.Stmts) = 2
    /\ PositionLine(f.Stmts[2].Position) >= PositionLine(f.Stmts[1].Position) + 3
    /\ \E i \in 2..(Len(p.out) - 1) :
          EndsLine(p.out[i - 1]) /\ p.out[i] = "\n" /\ ~EndsLine(p.out[i + 1])

----------------------------------------------------------------------------
(* C8 *)

\* C8 as claimed: the output ends with exactly one newline, no blank line
\* at its end.
OneTrailingNewline ==
    Printed =>
        /\ p.out # <<>>
        /\ p.out[Len(p.out)] = "\n"
        /\ Len(p.out) >= 2 => ~EndsLine(p.out[Len(p.out) - 1])

\* C8: the last chunk of a printed output is a newline, with no comment and
\* no heredoc left to write; the chunk before it ends a line only when the
\* output ends with a heredoc whose terminator word is empty.
TrailingNewline ==
    Printed =>
        /\ p.out # <<>>
        /\ p.out[Len(p.out)] = "\n"
        /\ p.comments = <<>> /\ p.pendingHdocs = <<>>
        /\ Len(p.out) = 1 <=> (f.Stmts = <<>> /\ f.Comments = <<>>)
        /\ (Len(p.out) >= 2 /\ EndsLine(p.out[Len(p.out) - 1])) =>
              /\ p.queued # <<>>
              /\ LET r == p.queued[Len(p.queued)]
                 IN  /\ PlainText(r.Word.Parts) = <<>>
                     /\ At(p.out, HdocText(r), Len(p.out) - Len(HdocText(r)) + 1)

\* a printed file that ends with a heredoc and a comment after it
TrailingNewlineWitness ==
    /\ Printed
    /\ Len(f.Stmts) = 2
    /\ HdocsOf(f.Stmts[2]) # <<>>
    /\ f.Comments # <<>>
    /\ PositionLine(f.Comments[Len(f.Comments)].Hash) > PositionLine(f.Stmts[2].Position)

----------------------------------------------------------------------------
(* C9 *)

\* the error of the first Write call of the sink that failed, if one did
FirstSinkError(w) ==
    IF w.failAt > 0 /\ w.calls >= w.failAt THEN EIO \o ToString(w.failAt) ELSE Nil

\* C9: Fprint returns the error of the first write of the sink that failed,
\* and nil only if none failed and all the output reached the sink; once
\* p.err holds an error no step of the print changes it; and Fprint
\* returns with levelIncs, pendingHdocs and the comment backlog empty.
FirstErrorReturned ==
    /\ [](pc = "done" =>
            /\ result = FirstSinkError(p.w)
            /\ result = Nil => (p.w.n = 0 /\ p.w.sunk = Len(p.out))
            /\ p.levelIncs = <<>>
            /\ p.pendingHdocs = <<>>)
    /\ [][(Main /\ p.err # Nil /\ p'.w.kind = "bufio") => p'.err = p.err]_vars

\* Fprint has returned the error of a write that failed before the second
\* statement was printed
FirstErrorReturnedWitness ==
    /\ pc = "done"
    /\ result # Nil
    /\ Len(f.Stmts) = 2
    /\ p.levelIncs = <<>>
    /\ p.w.calls = p.w.failAt
    /\ p.w.sunk = 0 /\ Len(p.out) = BufSize
    /\ p.curLine >= PositionLine(f.Stmts[2].Position)

----------------------------------------------------------------------------
(* C10 *)

Tabs(n) == [j \in 1..n |-> "\t"]

RECURSIVE Render(_)
\* the chunks of lines given as <<level, chunks>>
Render(lines) ==
    IF lines = <<>> THEN <<>>
    ELSE Tabs(Head(lines)[1]) \o Head(lines)[2] \o <<"\n">> \o Render(Tail(lines))

\* case $x in / a) / foo1 / ;; / b | c) / bar1 / ;; / esac with the patterns
\* d levels deeper than `case` and the bodies and `;;` one level deeper
\* than the patterns
CaseLines(d) ==
    << <<0, <<"case ", "$", "x", " in">> >>,
       <<d, <<"a", ")">> >>,
       <<d + 1, <<"foo1">> >>,
       <<d + 1, <<";;">> >>,
       <<d, <<"b", " ", "|", " ", "c", ")">> >>,
       <<d + 1, <<"bar1">> >>,
       <<d + 1, <<";;">> >>,
       <<0, <<"esac">> >> >>

\* the chunks of the clause, up to `esac`
CaseText(d) == SubSeq(Render(CaseLines(d)), 1, Len(Render(CaseLines(d))) - 1)

\* the file starts with the case clause
StartsWithCase == f.Stmts # <<>> /\ f.Stmts[1].Cmd.type = "CaseClause"

\* C10 as claimed: with tabs, the case clause is printed with the pattern
\* lines at the level of `case`, bodies and `;;` one level deeper, `esac`
\* at the level of `case`.
CaseScenarioPatternsAtCaseLevel ==
    (Printed /\ p.c.Spaces = 0 /\ StartsWithCase)
        => At(p.out, CaseText(0), 1)

\* C10: with tabs, the case clause whose patterns, bodies, `;;` and `esac`
\* each start a source line of their own is printed with `case $x in`
\* first, the pattern lines one level deeper than `case`, bodies and `;;`
\* one level deeper than the patterns, and `esac` at the level of `case`.
CaseScenario ==
    (Printed /\ p.c.Spaces = 0 /\ StartsWithCase
        /\ f.Stmts[1] = Shape("case", 1, 1).s)
        => At(p.out, CaseText(1), 1)

\* a printed file that starts with the case clause on eight source lines
CaseScenarioWitness ==
    /\ Printed /\ p.c.Spaces = 0 /\ StartsWithCase
    /\ f.Stmts[1] = Shape("case", 1, 1).s
    /\ p.nInc = 3 /\ p.nDec = 3
    /\ Len(p.out) > Len(CaseText(1)) + 1

----------------------------------------------------------------------------
(* C11 *)

\* s is a pipeline of three calls, nested to the right or to the left
Pipe3(s) ==
    /\ s.Cmd.type = "BinaryCmd" /\ s.Cmd.Op = "OR"
    /\ \/ /\ s.Cmd.X.Cmd.type = "CallExpr"
          /\ s.Cmd.Y.Cmd.type = "BinaryCmd" /\ s.Cmd.Y.Cmd.Op = "OR"
          /\ s.Cmd.Y.Cmd.X.Cmd.type = "CallExpr" /\ s.Cmd.Y.Cmd.Y.Cmd.type = "CallExpr"
       \/ /\ s.Cmd.Y.Cmd.type = "CallExpr"
          /\ s.Cmd.X.Cmd.type = "BinaryCmd" /\ s.Cmd.X.Cmd.Op = "OR"
          /\ s.Cmd.X.Cmd.X.Cmd.type = "CallExpr" /\ s.Cmd.X.Cmd.Y.Cmd.type = "CallExpr"

\* its three calls
Stages(s) ==
    IF s.Cmd.X.Cmd.type = "CallExpr"
    THEN <<s.Cmd.X, s.Cmd.Y.Cmd.X, s.Cmd.Y.Cmd.Y>>
    ELSE <<s.Cmd.X.Cmd.X, s.Cmd.X.Cmd.Y, s.Cmd.Y>>

\* the chunks of n levels of indentation
Indentation(n) ==
    IF p.c.Spaces = 0 THEN Tabs(n) ELSE [j \in 1..(p.c.Spaces * n) |-> " "]

\* C11: in a printed file, a pipeline of three one-word calls a | b | c of
\* a statement list, with a and b on one source line, is written as
\* "a | b | c" on one line if c is on that source line too; if c is on a
\* later line, "a | b" is followed by a backslash-newline, the indentation
\* of the line of a and one level more, and "| c".
PipelineScenario ==
    Printed =>
        \A ss \in StmtLists : \A i \in 1..Len(ss) :
            Pipe3(ss[i]) =>
                LET a  == FirstChunk(Stages(ss[i])[1])
                    b  == FirstChunk(Stages(ss[i])[2])
                    c  == FirstChunk(Stages(ss[i])[3])
                    iA == Last(Places(p.out, a))
                    la == PositionLine(Stages(ss[i])[1].Position)
                    lc == PositionLine(Stages(ss[i])[3].Position)
                IN  /\ Places(p.out, a) # {}
                    /\ \E n \in 0..2 : LineBefore(p.out, iA) = Indentation(n)
                    /\ IF lc = la
                       THEN At(p.out, <<a, " ", "|", " ", b, " ", "|", " ", c>>, iA)
                       ELSE At(p.out, <<a, " ", "|", " ", b, " \\\n">> \o
                                      LineBefore(p.out, iA) \o Indentation(1) \o
                                      <<"|", " ", c>>, iA)

\* a pipeline of three calls with its last call on a later line has been
\* printed inside a block
PipelineScenarioWitness ==
    /\ Printed
    /\ \E ss \in StmtLists : \E i \in 1..Len(ss) :
          /\ ss # f.Stmts
          /\ Pipe3(ss[i])
          /\ PositionLine(Stages(ss[i])[3].Position) >
                PositionLine(Stages(ss[i])[1].Position)

----------------------------------------------------------------------------
(* C12 *)

\* a step of a method of the printer of Fprint
PrintStep == Main /\ p'.w.kind = "bufio" /\ stack # <<>>

----------------------------------------------------------------------------
(* C15 *)

\* C15 as claimed: the flag of every matched pair is true exactly when its
\* incLevel raised the level, and the level after its decLevel is the level
\* before its incLevel.
LevelRestored ==
    \A pr \in p.pairs :
        /\ pr.flag = (pr.how = "inc")
        /\ pr.after = pr.before

\* C15: the flag pushed by incLevel is true exactly when the call raised the
\* level or took over the increment of the entry before it; the level after
\* the matching decLevel is the level before the incLevel when the call
\* raised the level or pushed false, and one less when it took over the
\* increment of the entry before it.
LevelUndone ==
    \A pr \in p.pairs :
        /\ pr.flag = (pr.how \in {"inc", "took"})
        /\ pr.after = IF pr.how = "took" THEN pr.before - 1 ELSE pr.before

\* a print has returned in which an incLevel took over an increment and an
\* incLevel raised the level
LevelUndoneWitness ==
    /\ pc = "done" /\ result = Nil
    /\ \E pr \in p.pairs : pr.how = "took"
    /\ \E pr \in p.pairs : pr.how = "inc"

----------------------------------------------------------------------------
(* C16 *)

RECURSIVE SubStmts(_)
\* the statements inside statement s: the operands of a binary command and
\* the statements of a block, and the statements inside those
SubStmts(s) ==
    IF s.Cmd.type = "BinaryCmd"
    THEN {s.Cmd.X, s.Cmd.Y} \cup SubStmts(s.Cmd.X) \cup SubStmts(s.Cmd.Y)
    ELSE IF s.Cmd.type = "Block"
    THEN UNION {{s.Cmd.Stmts[i]} \cup SubStmts(s.Cmd.Stmts[i]) : i \in 1..Len(s.Cmd.Stmts)}
    ELSE {}

\* the binary commands of the file
BinaryStmts ==
    {s \in UNION {{f.Stmts[i]} \cup SubStmts(f.Stmts[i]) : i \in 1..Len(f.Stmts)} :
        s.Cmd.type = "BinaryCmd"}

\* the first links of the chains: the binary commands that are not the
\* right operand of a binary command
ChainHeads == {s \in BinaryStmts : \A t \in BinaryStmts : t.Cmd.Y # s}

RECURSIVE Links(_)
\* the links of the chain that starts at s
Links(s) ==
    {s} \cup (IF s.Cmd.Y.Cmd.type = "BinaryCmd" THEN Links(s.Cmd.Y) ELSE {})

\* C16: when Fprint has printed the file, of every chain of binary commands
\* (a op b op c ..., also one inside a block that is the left operand of a
\* link of another chain) exactly one link has called incLevel.
OneIncreasePerChain ==
    Printed =>
        \A h \in ChainHeads :
            Cardinality({s \in Links(h) : s.Cmd.Y.Position \in p.binIncs}) = 1

----------------------------------------------------------------------------
(* C17 *)

\* stmts() has taken the path of the one statement on the current line
\* and is about to print the statement
SingleStmtEntered ==
    /\ Main /\ Len(stack) >= 2
    /\ Head(stack).fn = "stmt" /\ Head(stack).at = 0
    /\ stack[2].fn = "stmts" /\ stack[2].at = 7

\* stmts() is about to return from that path
SingleStmtDone == Main /\ stack # <<>> /\ Head(stack).fn = "stmts" /\ Head(stack).at = 7

\* C17: on the path of stmts() for a list of one statement that starts on
\* the current line, no newline has been written between the entry of
\* stmts() and the statement, whatever was pending at the entry, and
\* wantNewline is unset when stmts() returns (so that the keyword after the
\* list is joined with "; ").
SingleStmtStaysOnLine ==
    /\ SingleStmtEntered =>
          \A i \in (stack[2].n0 + 1)..Len(p.out) : ~EndsLine(p.out[i])
    /\ SingleStmtDone => ~p.wantNewline

----------------------------------------------------------------------------
(* C18 *)

\* the calls of at least two arguments in the statement lists of the file
Calls2 ==
    {s \in UNION {{ss[i] : i \in 1..Len(ss)} : ss \in StmtLists} :
        s.Cmd.type = "CallExpr" /\ Len(s.Cmd.Args) >= 2}

\* where in the output the argument w stands
ArgPlace(w) == Last(Places(p.out, w.Parts[1].Value[1]))

\* the places in the output where redirection r is written: its operator
\* followed by its word
RedirPlaces(r) ==
    {i \in 1..(Len(p.out) - 1) :
        p.out[i] = redirectOp(r.Op) /\ p.out[i + 1] = r.Word.Parts[1].Value[1]}

\* redirection i of s stands before the second argument in the source and
\* is no heredoc
BeforeSecondArg(s, i) ==
    /\ ~IsHdoc(s.Redirs[i])
    /\ ~PosAfter(RedirPos(s.Redirs[i]), WordPos(s.Cmd.Args[2]))

\* so do redirection i and all the redirections before it in the list
PrefixBeforeSecondArg(s, i) == \A j \in 1..i : BeforeSecondArg(s, j)

\* In a printed file, every redirection of a call of two or more arguments
\* is written exactly once: between the first and the second argument if
\* Sel says so, after the last argument otherwise; a heredoc is written
\* after the last argument and was queued.
RedirsPlaced(Sel(_, _)) ==
    Printed =>
        \A s \in Calls2 : \A i \in 1..Len(s.Redirs) :
            LET r == s.Redirs[i]
            IN  /\ Cardinality(RedirPlaces(r)) = 1
                /\ \A n \in RedirPlaces(r) :
                       IF Sel(s, i)
                       THEN /\ ArgPlace(s.Cmd.Args[1]) < n
                            /\ n < ArgPlace(s.Cmd.Args[2])
                       ELSE ArgPlace(s.Cmd.Args[Len(s.Cmd.Args)]) < n
                /\ IsHdoc(r) => (~Sel(s, i) /\ \E k \in 1..Len(p.queued) : p.queued[k] = r)

\* C18 as claimed: every redirection that stands before the second argument
\* and is no heredoc is written right after the first word, also when a
\* heredoc precedes it in the list; every other one after the last argument.
RedirsBeforeSecondArgInterleaved == RedirsPlaced(BeforeSecondArg)

\* C18: the redirections written right after the first word are those of
\* the longest prefix of the redirection list that stand before the second
\* argument and are no heredocs; every other redirection (a heredoc, and
\* what follows a heredoc in the list) is written after the last argument;
\* each is written exactly once and a heredoc is always queued.
RedirsPrefixInterleaved == RedirsPlaced(PrefixBeforeSecondArg)

\* a call has been printed that has, before its second argument, a
\* redirection, a heredoc and a redirection after the heredoc
RedirsPrefixInterleavedWitness ==
    /\ Printed
    /\ \E s \in Calls2 :
          /\ \E i \in 1..Len(s.Redirs) : PrefixBeforeSecondArg(s, i)
          /\ \E i \in 1..Len(s.Redirs) :
                BeforeSecondArg(s, i) /\ ~PrefixBeforeSecondArg(s, i)

----------------------------------------------------------------------------
(* C19 *)

\* the comments written after other text of their line
InlineComments == {f.Comments[i] : i \in {j \in 1..Len(f.Comments) : f.Comments[j].Hash.col > 1}}

\* the number of spaces written before the `#` of comment c
RECURSIVE SpacesBefore(_)
SpacesBefore(i) == IF i >= 1 /\ p.out[i] = " " THEN 1 + SpacesBefore(i - 1) ELSE 0
Padding(c) == SpacesBefore(HashPlace(c) - 1)

\* statement s carries an inline comment: a comment on its first line
Carries(s) == \E c \in InlineComments : c.Hash.line = s.Position.line

\* the width of what is written on the output line of s up to the padding
\* of its comment
Width(s) ==
    LET c == CHOOSE d \in InlineComments : d.Hash.line = s.Position.line
    IN  SumLen(SubSeq(p.out, Last(Places(p.out, FirstChunk(s))),
                      HashPlace(c) - Padding(c) - 1))

\* the statements from a to b of the list carry inline comments and start
\* on adjacent lines
Adjacent(ss, a, b) ==
    \A k \in a..b :
        /\ Carries(ss[k])
        /\ k > a => ss[k].Position.line <= ss[k - 1].Position.line + 1

\* the run of statement i of the list
RunOf(ss, i) ==
    {j \in 1..Len(ss) : IF j <= i THEN Adjacent(ss, j, i) ELSE Adjacent(ss, i, j)}

\* C19: in a printed file, the padding before the inline comment of a
\* statement of a run is the largest width in the run minus the width of
\* the statement plus one, and an inline comment on a line where no
\* statement of a list starts (the closing line of a block) has exactly one
\* space before it.
InlineAlignment ==
    Printed =>
        \A c \in InlineComments :
            LET own == {x \in {<<ss, i>> : ss \in StmtLists, i \in 1..2} :
                          /\ x[2] <= Len(x[1])
                          /\ x[1][x[2]].Position.line = c.Hash.line}
            IN  /\ own = {} => Padding(c) = 1
                /\ \A x \in own :
                       \A j \in RunOf(x[1], x[2]) : Width(x[1][j]) + 1 <= Width(x[1][x[2]]) + Padding(c)
                /\ \A x \in own :
                       \E j \in RunOf(x[1], x[2]) : Width(x[1][j]) + 1 = Width(x[1][x[2]]) + Padding(c)

----------------------------------------------------------------------------
(* C20 *)

\* the number of temporary level++ in force: the calls of sepTok and
\* semiRsrv that are between their level++ and their level--, and the case
\* clauses that are between theirs
Windows ==
    Cardinality({i \in 1..Len(stack) :
        \/ stack[i].fn \in {"sepTok", "semiRsrv"} /\ stack[i].at = 1
        \/ stack[i].fn = "command" /\ stack[i].at = 12})

\* the number of true flags in levelIncs
TrueFlags == Cardinality({i \in 1..Len(p.levelIncs) : p.levelIncs[i]})

\* C20: while no temporary level++ of sepTok, semiRsrv or the case clause is
\* in force, the level of the printer at work is the number of true flags
\* in levelIncs and is not negative, and the stack is not empty when the
\* level is above lastLevel (where incLevel reads its last entry); no
\* traversal has panicked on the indentation stack.
LevelIsTrueFlags ==
    /\ p.crashed # "panic"
    /\ Windows = 0 =>
          /\ p.level = TrueFlags
          /\ p.level >= 0
          /\ p.level > p.lastLevel => p.levelIncs # <<>>

----------------------------------------------------------------------------
(* Concurrent prints, src/print.go:19-41.  Several goroutines call Fprint,  *)
(* each with a tree and a sink of its own; they share writerFree.  The      *)
(* variables hold one value per print: pc[i] the statement of Fprint that   *)
(* print i runs next, f[i] what it is given, p[i] its printer, stack[i]     *)
(* the writes its traversal has yet to make, result[i] what it returned and *)
(* what its sink has received.  writerFree holds the writers the pool has   *)
(* made and which of them are in the pool.  The methods of the printer      *)
(* touch no shared state but the writer p.w, so the traversal of a print is *)
(* the sequence of its writes.                                              *)

\* the prints that run concurrently
Procs == {1, 2}
\* writers the pool's New makes at most
MaxWriters == 3

\* the chunks the traversal of the tree of print i writes: a1 b1 c1 and
\* the newline
PoolText(i) == <<Nm("a", i), " ", Nm("b", i), " ", Nm("c", i), "\n">>

\* a *bufio.Writer: the sink it writes to (0: none), the chunks in its
\* buffer and its sticky error
PoolWriter(sink, buf, err) == [sink |-> sink, buf |-> buf, err |-> err]

\* v is the first part of w
IsPrefix(v, w) == Len(v) <= Len(w) /\ v = SubSeq(w, 1, Len(v))

\* the sink of print i fails at its next Write call
SinkFails(i) == f[i].FailAt > 0 /\ result[i].calls + 1 >= f[i].FailAt

InitPool ==
    /\ pc = [i \in Procs |-> "get"]
    /\ \E fa \in [Procs -> 0..MaxFail] :
          f = [i \in Procs |-> [Text |-> PoolText(i), FailAt |-> fa[i]]]
    /\ p = [i \in Procs |-> [w |-> 0, err |-> Nil, left |-> 0]]
    /\ stack = [i \in Procs |-> PoolText(i)]
    \* an earlier print has left a writer in the pool
    /\ writerFree = [all |-> <<PoolWriter(0, <<"old">>, "stale")>>, free |-> {1}]
    /\ result = [i \in Procs |-> [err |-> "none", sink |-> <<>>, calls |-> 0]]

\* the writer keeps its buffer and its error
PoolResetKeeps(w, i) == [w EXCEPT !.sink = i]

\* bw.Reset(w): the writer drops its buffer and its error and writes to w
PoolReset(w, i) == PoolWriter(i, <<>>, Nil)

\* writerFree.Get() hands out a writer of the pool
GetFree(i) ==
    /\ pc[i] = "get"
    /\ \E id \in writerFree.free :
          /\ writerFree' = [writerFree EXCEPT !.free = @ \ {id}]
          /\ p' = [p EXCEPT ![i].w = id]
    /\ pc' = [pc EXCEPT ![i] = "reset"]
    /\ UNCHANGED <<f, stack, result>>

\* writerFree.Get() finds no writer for this goroutine and calls New
GetNew(i) ==
    /\ pc[i] = "get"
    /\ Len(writerFree.all) < MaxWriters
    /\ writerFree' = [writerFree EXCEPT !.all = Append(@, PoolWriter(0, <<>>, Nil))]
    /\ p' = [p EXCEPT ![i].w = Len(writerFree.all) + 1]
    /\ pc' = [pc EXCEPT ![i] = "reset"]
    /\ UNCHANGED <<f, stack, result>>

\* bw.Reset(w); p := printer{w: bw, ...}
Reset(i) ==
    /\ pc[i] = "reset"
    /\ writerFree' = [writerFree EXCEPT !.all[p[i].w] = PoolReset(@, i)]
    /\ pc' = [pc EXCEPT ![i] = "print"]
    /\ UNCHANGED <<f, p, stack, result>>

\* the writer w hands its buffer to its sink: the writer and the sinks after
\* it [w, result]
HandOver(w) ==
    IF w.sink = 0 THEN [w |-> [w EXCEPT !.err = "nosink"], result |-> result]
    ELSE IF SinkFails(w.sink)
    THEN [w |-> [w EXCEPT !.err = EIO],
          result |-> [result EXCEPT ![w.sink].calls = @ + 1]]
    ELSE [w |-> [w EXCEPT !.buf = <<>>],
          result |-> [result EXCEPT ![w.sink].calls = @ + 1,
                                    ![w.sink].sink = @ \o w.buf]]

\* p.stmts, p.commentsUpTo(0), p.newline(): the next write of the traversal
\* goes through p.w
Write(i) ==
    LET w == writerFree.all[p[i].w]
        s == Head(stack[i])
        h == HandOver(w)
    IN  /\ pc[i] = "print"
        /\ stack[i] # <<>>
        /\ IF w.err # Nil
           THEN /\ p' = [p EXCEPT ![i].err = w.err]
                /\ UNCHANGED <<writerFree, result>>
           ELSE IF Len(w.buf) >= BufSize
           THEN /\ writerFree' = [writerFree EXCEPT !.all[p[i].w] =
                                     IF h.w.err # Nil THEN h.w
                                     ELSE [h.w EXCEPT !.buf = <<s>>]]
                /\ result' = h.result
                /\ p' = [p EXCEPT ![i].err = h.w.err]
           ELSE /\ writerFree' = [writerFree EXCEPT !.all[p[i].w].buf = Append(@, s)]
                /\ p' = [p EXCEPT ![i].err = Nil]
                /\ UNCHANGED result
        /\ stack' = [stack EXCEPT ![i] = Tail(@)]
        /\ UNCHANGED <<pc, f>>

\* the traversal has returned
Traversed(i) ==
    /\ pc[i] = "print"
    /\ stack[i] = <<>>
    /\ pc' = [pc EXCEPT ![i] = "flush"]
    /\ UNCHANGED <<f, p, stack, writerFree, result>>

\* if p.err == nil { p.err = bw.Flush() }
FlushPooled(i) ==
    LET w == writerFree.all[p[i].w]
        h == HandOver(w)
    IN  /\ pc[i] = "flush"
        /\ IF p[i].err # Nil \/ w.buf = <<>>
           THEN UNCHANGED <<p, writerFree, result>>
           ELSE /\ writerFree' = [writerFree EXCEPT !.all[p[i].w] = h.w]
                /\ result' = h.result
                /\ p' = [p EXCEPT ![i].err = h.w.err]
        /\ pc' = [pc EXCEPT ![i] = "put"]
        /\ UNCHANGED <<f, stack>>

\* writerFree.Put(p.w); return p.err
PutBack(i) ==
    /\ pc[i] = "put"
    /\ writerFree' = [writerFree EXCEPT !.free = @ \cup {p[i].w}]
    /\ result' = [result EXCEPT ![i].err = p[i].err]
    \* history: the chunks left in the buffer of the writer put back
    /\ p' = [p EXCEPT ![i].left = Len(writerFree.all[p[i].w].buf)]
    /\ pc' = [pc EXCEPT ![i] = "done"]
    /\ UNCHANGED <<f, stack>>

NextPool ==
    \E i \in Procs :
        \/ GetFree(i)
        \/ GetNew(i)
        \/ Reset(i)
        \/ Write(i)
        \/ Traversed(i)
        \/ FlushPooled(i)
        \/ PutBack(i)

SpecPool == InitPool /\ [][NextPool]_vars

----------------------------------------------------------------------------
(* C13 *)

\* print i holds a writer: between its Get and its Put
InFlight(i) == pc[i] \in {"reset", "print", "flush", "put"}

\* no two prints in flight hold the same writer, and a writer held is not
\* in the pool
WritersApart ==
    /\ \A i, j \in Procs : (i # j /\ InFlight(i) /\ InFlight(j)) => p[i].w # p[j].w
    /\ \A i \in Procs : InFlight(i) => p[i].w \notin writerFree.free

\* from its first write on, the writer a print holds writes to the sink of
\* that print, and what its buffer holds are chunks of that print that follow
\* what the sink has received
ResetBeforeWrite ==
    \A i \in Procs :
        pc[i] \in {"print", "flush", "put"} =>
            /\ writerFree.all[p[i].w].sink = i
            /\ IsPrefix(result[i].sink \o writerFree.all[p[i].w].buf, f[i].Text)

\* the sink of a print receives chunks of that print only, in order
NoForeignBytes == \A i \in Procs : IsPrefix(result[i].sink, f[i].Text)

\* C13 as claimed: concurrent prints never hold the same writer, a writer is
\* reset to the caller's sink before its first write, no bytes of one print
\* reach the sink of another, and a writer is put back only when its buffer
\* has been handed to the sink in full, also when a write error was recorded.
PoolIsolationFlushed ==
    /\ WritersApart /\ ResetBeforeWrite /\ NoForeignBytes
    /\ \A i \in Procs : pc[i] = "done" => p[i].left = 0

\* C13: concurrent prints never hold the same writer, a writer is reset to
\* the caller's sink before its first write, no bytes of one print reach the
\* sink of another, and a writer is put back with an empty buffer, the sink
\* having received the whole output, when the print returns nil.
PoolIsolation ==
    /\ WritersApart /\ ResetBeforeWrite /\ NoForeignBytes
    /\ \A i \in Procs :
          (pc[i] = "done" /\ result[i].err = Nil) =>
              (p[i].left = 0 /\ result[i].sink = f[i].Text)

\* a print has returned an error and put back its writer with chunks in the
\* buffer; another print has taken that writer and returned nil
PoolIsolationWitness ==
    \E i, j \in Procs :
        /\ pc[i] = "done" /\ result[i].err # Nil /\ p[i].left > 0
        /\ pc[j] = "done" /\ result[j].err = Nil /\ p[j].w = p[i].w

----------------------------------------------------------------------------
(* Print, parse, print again.  The parser is not part of the printer; as    *)
(* the data model says, it gives every node the position of its first token *)
(* in the text and attaches comments by position only.  The text parsed     *)
(* here is the output of the first print, so the tree it yields has the     *)
(* nodes of the tree printed, each with the position its token has in that  *)
(* output.  Reparse is defined for files of calls of literal words, with at *)
(* most one if clause or block of such calls, where every token stands once *)
(* in the output.                                                           *)

\* a call of literal words without redirections
PlainCall(s) ==
    /\ s.Cmd.type = "CallExpr" /\ s.Redirs = <<>> /\ s.Assigns = <<>>
    /\ ~s.Background /\ ~s.Negated
    /\ \A k \in 1..Len(s.Cmd.Args) :
          Len(s.Cmd.Args[k].Parts) = 1 /\ s.Cmd.Args[k].Parts[1].type = "Lit"

\* an if clause without elif, or a block, of such calls
PlainCompound(s) ==
    /\ s.Redirs = <<>> /\ s.Assigns = <<>> /\ ~s.Background /\ ~s.Negated
    /\ \/ /\ s.Cmd.type = "IfClause"
          /\ s.Cmd.Cond.type = "StmtCond" /\ s.Cmd.Elifs = <<>>
          /\ \A ss \in {s.Cmd.Cond.Stmts, s.Cmd.ThenStmts, s.Cmd.ElseStmts} :
                \A k \in 1..Len(ss) : PlainCall(ss[k])
       \/ /\ s.Cmd.type = "Block"
          /\ \A k \in 1..Len(s.Cmd.Stmts) : PlainCall(s.Cmd.Stmts[k])

Reparsable(file) ==
    /\ \A k \in 1..Len(file.Stmts) : PlainCall(file.Stmts[k]) \/ PlainCompound(file.Stmts[k])
    /\ Cardinality({k \in 1..Len(file.Stmts) : PlainCompound(file.Stmts[k])}) <= 1

\* the position in the text o of the first byte of chunk i: the line is one
\* more than the newlines before it, the column one more than the bytes
\* after the last of them
PosOf(o, i) ==
    LET nls == {j \in 1..(i - 1) : EndsLine(o[j])}
        nl  == IF nls = {} THEN 0 ELSE Last(nls)
    IN  Pos(1 + Cardinality(nls), 1 + SumLen(SubSeq(o, nl + 1, i - 1)))

\* the position of the token c, which stands once in o
TokPos(o, c) == PosOf(o, Last(Places(o, c)))

\* the nodes of a call with the positions of their tokens in o
ParsedCall(o, s) ==
    [s EXCEPT !.Position = TokPos(o, s.Cmd.Args[1].Parts[1].Value[1]),
              !.Cmd.Args = [k \in 1..Len(s.Cmd.Args) |->
                  Word(<<[s.Cmd.Args[k].Parts[1] EXCEPT
                             !.Pos = TokPos(o, s.Cmd.Args[k].Parts[1].Value[1])]>>)]]

ParsedCalls(o, ss) == [k \in 1..Len(ss) |-> ParsedCall(o, ss[k])]

\* the nodes of a statement with the positions of their tokens in o
ParsedStmt(o, s) ==
    IF s.Cmd.type = "IfClause"
    THEN [s EXCEPT !.Position = TokPos(o, "if"),
                   !.Cmd.Cond.Stmts = ParsedCalls(o, @),
                   !.Cmd.Then = TokPos(o, "then"),
                   !.Cmd.ThenStmts = ParsedCalls(o, @),
                   !.Cmd.Else = IF Places(o, "else") # {} THEN TokPos(o, "else") ELSE NoPos,
                   !.Cmd.ElseStmts = ParsedCalls(o, @),
                   !.Cmd.Fi = TokPos(o, "fi")]
    ELSE IF s.Cmd.type = "Block"
    THEN [s EXCEPT !.Position = TokPos(o, "{"),
                   !.Cmd.Stmts = ParsedCalls(o, @),
                   !.Cmd.Rbrace = TokPos(o, "}")]
    ELSE ParsedCall(o, s)

\* the file the parser makes of the text o, which is the print of file
Parsed(o, file) ==
    [Stmts |-> [k \in 1..Len(file.Stmts) |-> ParsedStmt(o, file.Stmts[k])],
     Comments |-> [k \in 1..Len(file.Comments) |->
                     [file.Comments[k] EXCEPT
                         !.Hash = PosOf(o, Last(Places(o, file.Comments[k].Text[1])) - 1)]]]

\* the output of a print that returned nil is parsed and the tree is given
\* to Fprint; First keeps the output of the first print
Reparse ==
    /\ pc = "done" /\ result = Nil
    /\ "First" \notin DOMAIN f
    /\ Reparsable(f)
    /\ f' = [Stmts |-> Parsed(p.out, f).Stmts, Comments |-> Parsed(p.out, f).Comments,
             First |-> p.out]
    /\ pc' = "get"
    /\ result' = "none"
    /\ UNCHANGED <<p, stack, writerFree>>

NextTwice == Next \/ Reparse

SpecTwice == Init /\ [][NextTwice]_vars

----------------------------------------------------------------------------
(* C14 *)

\* the second print, of the tree parsed from the output of the first, has
\* returned nil
PrintedTwice == pc = "done" /\ result = Nil /\ "First" \in DOMAIN f

\* C14: the print of the tree parsed from the output of a print is that
\* output, byte for byte.
Idempotence == PrintedTwice => p.out = f.First

====
